---------------------------- MODULE Spec2Model ----------------------------
(***************************************************************************)
(* A model of ar6_plotting_tools.py: the category-column resolution, the   *)
(* category / IMP plotting operations, the Kaya ratio alignment and the    *)
(* database-composition classifiers.  The toolkit is a set of functions    *)
(* over a caller-owned dataset; the state is the dataset (df_pyam), its    *)
(* metadata table (meta), the last call made (call) and what that call     *)
(* did (result: what it drew, printed, returned or raised).                *)
(***************************************************************************)
EXTENDS Integers, Sequences, FiniteSets, TLC

VARIABLES df_pyam, meta, call, result

vars == <<df_pyam, meta, call, result>>

(***************************************************************************)
(* Python values.  None and NaN are kept apart from every string the       *)
(* program handles.                                                        *)
(***************************************************************************)
None == "<None>"
NaNText == "<NaN>"

(***************************************************************************)
(* Bounds of the model.                                                    *)
(***************************************************************************)
MaxCols == 3

(***************************************************************************)
(* Strings: str.lower, str.upper, the `in` substring test.                 *)
(***************************************************************************)
UpperAlpha == "ABCDEFGHIJKLMNOPQRSTUVWXYZ"
LowerAlpha == "abcdefghijklmnopqrstuvwxyz"

CharAt(s, i) == SubSeq(s, i, i)

LowerChar(c) ==
    IF \E i \in 1..Len(UpperAlpha) : CharAt(UpperAlpha, i) = c
    THEN CharAt(LowerAlpha, CHOOSE i \in 1..Len(UpperAlpha) : CharAt(UpperAlpha, i) = c)
    ELSE c

UpperChar(c) ==
    IF \E i \in 1..Len(LowerAlpha) : CharAt(LowerAlpha, i) = c
    THEN CharAt(UpperAlpha, CHOOSE i \in 1..Len(LowerAlpha) : CharAt(LowerAlpha, i) = c)
    ELSE c

RECURSIVE StrLower(_)
StrLower(s) ==
    IF Len(s) = 0 THEN ""
    ELSE LowerChar(CharAt(s, 1)) \o StrLower(SubSeq(s, 2, Len(s)))

RECURSIVE StrUpper(_)
StrUpper(s) ==
    IF Len(s) = 0 THEN ""
    ELSE UpperChar(CharAt(s, 1)) \o StrUpper(SubSeq(s, 2, Len(s)))

\* sub in s
StrIn(sub, s) ==
    \E i \in 1..(Len(s) - Len(sub) + 1) : SubSeq(s, i, i + Len(sub) - 1) = sub

InSeq(x, seq) == \E i \in 1..Len(seq) : seq[i] = x

(***************************************************************************)
(* _get_category_column(meta)                                              *)
(***************************************************************************)
IsCategCol(col) == StrIn("categ", StrLower(col))

GetCategoryColumnSwapped(columns) ==
    IF InSeq("category", columns) THEN "category"
    ELSE IF InSeq("Category", columns) THEN "Category"
    ELSE LET cat_cols == SelectSeq(columns, IsCategCol)
         IN  IF cat_cols # <<>> THEN cat_cols[1] ELSE None

GetCategoryColumnLast(columns) ==
    IF InSeq("Category", columns) THEN "Category"
    ELSE IF InSeq("category", columns) THEN "category"
    ELSE LET cat_cols == SelectSeq(columns, IsCategCol)
         IN  IF cat_cols # <<>> THEN cat_cols[Len(cat_cols)] ELSE None

_get_category_column(columns) ==
    IF InSeq("Category", columns) THEN "Category"
    ELSE IF InSeq("category", columns) THEN "category"
    ELSE LET cat_cols == SelectSeq(columns, IsCategCol)
         IN  IF cat_cols # <<>> THEN cat_cols[1] ELSE None


(***************************************************************************)
(* Module constants of the toolkit.                                        *)
(***************************************************************************)
ALL_CATEGORIES == <<"C1", "C2", "C3", "C4", "C5", "C6", "C7", "C8">>

CATEGORY_COLORS ==
    [c \in {"C1", "C2", "C3", "C4", "C5", "C6", "C7", "C8"} |->
        CASE c = "C1" -> "#97CEE4" [] c = "C2" -> "#778663"
          [] c = "C3" -> "#6F7899" [] c = "C4" -> "#A7C682"
          [] c = "C5" -> "#8CA7D0" [] c = "C6" -> "#FAC182"
          [] c = "C7" -> "#F18872" [] c = "C8" -> "#BD7161"]

\* The keys of IMP_SCENARIOS, in insertion order.
IMP_NAMES == <<"CurPol", "ModAct", "Neg", "Ren", "LD", "GS", "SP">>

IMP_SCENARIOS ==
    [n \in {"CurPol", "ModAct", "Neg", "Ren", "LD", "GS", "SP"} |->
        CASE n = "CurPol" -> "NGFS2_Current Policies"
          [] n = "ModAct" -> "EN_INDCi2030_3000f"
          [] n = "Neg"    -> "EN_NPi2020_400f_lowBECCS"
          [] n = "Ren"    -> "DeepElec_SSP2_ HighRE_Budg900"
          [] n = "LD"     -> "LowEnergyDemand_1.3_IPCC"
          [] n = "GS"     -> "CO_Bridge"
          [] n = "SP"     -> "SusDev_SDP-PkBudg1000"]

IMP_DETAILS ==
    [n \in {"CurPol", "ModAct", "Neg", "Ren", "LD", "GS", "SP"} |->
        CASE n = "CurPol" -> <<"GCAM 5.3", "#E31F2B">>
          [] n = "ModAct" -> <<"IMAGE 3.0", "#F29424">>
          [] n = "Neg"    -> <<"COFFEE 1.1", "#84A12B">>
          [] n = "Ren"    -> <<"REMIND-MAgPIE 2.1-4.3", "#2B7C8B">>
          [] n = "LD"     -> <<"MESSAGEix-GLOBIOM 1.0", "#4FA7BF">>
          [] n = "GS"     -> <<"WITCH 5.0", "#6E7895">>
          [] n = "SP"     -> <<"REMIND-MAgPIE 2.1-4.2", "#004D52">>]

\* KAYA_VARIABLES: the variable names of the four panels, in panel order.
KAYA_VARIABLES ==
    <<"Emissions|CO2|Energy and Industrial Processes", "GDP|PPP",
      "Population", "Primary Energy">>

\* KAYA_RATIOS: (numerator, denominator) of the three panels, in panel order.
KAYA_RATIOS ==
    << <<"GDP|PPP", "Population">>,
       <<"Primary Energy", "GDP|PPP">>,
       <<"Emissions|CO2|Energy and Industrial Processes", "Primary Energy">> >>

(***************************************************************************)
(* Floating-point values: NaN, +/-inf, or a finite value kept as a reduced *)
(* fraction p/q with q > 0.                                                *)
(***************************************************************************)
NaN == <<"nan", 0, 1>>
Inf(sign) == <<"inf", sign, 1>>

RECURSIVE Gcd(_, _)
Gcd(a, b) == IF b = 0 THEN a ELSE Gcd(b, a % b)

Abs(n) == IF n < 0 THEN -n ELSE n
Sign(n) == IF n < 0 THEN -1 ELSE IF n > 0 THEN 1 ELSE 0

Fin(p, q) ==
    LET g == Gcd(Abs(p), Abs(q))
    IN  <<"fin", (Sign(q) * p) \div g, Abs(q) \div g>>

Num(n) == <<"fin", n, 1>>

isnan(x) == x[1] = "nan"
isinf(x) == x[1] = "inf"

\* numpy's a / b on float64 (RuntimeWarnings are filtered out, line 17)
DivSwapped(a, b) ==
    IF isnan(a) \/ isnan(b) THEN NaN
    ELSE IF a[2] = 0 THEN (IF b[2] = 0 THEN NaN ELSE Inf(Sign(b[2])))
    ELSE Fin(b[2] * a[3], b[3] * a[2])

Div(a, b) ==
    IF isnan(a) \/ isnan(b) THEN NaN
    ELSE IF b[2] = 0 THEN (IF a[2] = 0 THEN NaN ELSE Inf(Sign(a[2])))
    ELSE Fin(a[2] * b[3], a[3] * b[2])

(***************************************************************************)
(* Sequences.                                                              *)
(***************************************************************************)
RECURSIVE SortedSeq(_)
\* sorted(S) for a set of integers
SortedSeq(S) ==
    IF S = {} THEN <<>>
    ELSE LET m == CHOOSE x \in S : \A y \in S : x <= y
         IN  <<m>> \o SortedSeq(S \ {m})

SeqToSet(seq) == {seq[i] : i \in 1..Len(seq)}

\* columns left in the order of the frame
unsorted_columns(columns) == columns

\* sorted(df_ts.columns)
sorted_columns(columns) == SortedSeq(SeqToSet(columns))

RECURSIVE Flatten(_)
Flatten(seqs) ==
    IF seqs = <<>> THEN <<>> ELSE Head(seqs) \o Flatten(Tail(seqs))

IndexOf(x, seq) == CHOOSE i \in 1..Len(seq) : seq[i] = x /\ \A j \in 1..(i - 1) : seq[j] # x

(***************************************************************************)
(* The dataset.  df_pyam.rows are the timeseries records, one per          *)
(* (model, scenario, region, variable), in index order; a record maps      *)
(* every year to a value or NaN and holds at least one value.              *)
(* df_pyam.year_order is the order in which timeseries() lists the year    *)
(* columns.  meta.columns are the metadata column names and meta.category  *)
(* the cells of the category column, by (model, scenario).                 *)
(***************************************************************************)
Years == {2020, 2050}

EmptyTable == [columns |-> <<>>, rows |-> <<>>]

\* df_pyam.filter(variable=v), and optionally model= and scenario=
filter(df, variable) == SelectSeq(df.rows, LAMBDA r : r.variable = variable)

filter_pathway(df, model, scenario, variable) ==
    SelectSeq(df.rows, LAMBDA r : r.variable = variable /\ r.model = model
                                  /\ r.scenario = scenario)

\* IamDataFrame.timeseries() of an empty frame raises
\* ValueError("This IamDataFrame is empty!")
TimeseriesRaises(rows) == Len(rows) = 0

\* df.timeseries(): one column per year that holds data in the frame
timeseries(df, rows) ==
    [columns |-> SelectSeq(df.year_order,
                           LAMBDA y : \E i \in 1..Len(rows) : ~isnan(rows[i].values[y])),
     rows    |-> rows]

KeyOf(row) == <<row.model, row.scenario>>
IdxOf(row) == <<row.model, row.scenario, row.region>>

\* meta.loc[(model, scenario), cat_col]: the cell, or a KeyError
\* a lookup that answers "C1" for a pathway the metadata does not hold
MetaLocDefault(m, key, cat_col) ==
    IF ~InSeq(cat_col, m.columns) THEN [ok |-> FALSE, value |-> NaNText]
    ELSE IF key \in DOMAIN m.category THEN [ok |-> TRUE, value |-> m.category[key]]
    ELSE [ok |-> TRUE, value |-> "C1"]

MetaLoc(m, key, cat_col) ==
    IF InSeq(cat_col, m.columns) /\ key \in DOMAIN m.category
    THEN [ok |-> TRUE, value |-> m.category[key]]
    ELSE [ok |-> FALSE, value |-> NaNText]

NoCategories == <<None>>

(***************************************************************************)
(* What a call leaves behind: the artists drawn (in drawing order), the    *)
(* lines printed, the axes titled "(no data)", and the exception that      *)
(* reached the caller ("none" for a normal return).                        *)
(***************************************************************************)
Artist(ax, kind, row, den, label, color, x, y) ==
    [ax |-> ax, kind |-> kind, idx |-> row, den_idx |-> den, label |-> label,
     color |-> color, x |-> x, y |-> y]

Outcome(raised, printed, drawn, nodata) ==
    [raised |-> raised, printed |-> printed, drawn |-> drawn, nodata |-> nodata]

\* the outcome of an operation that returns a value and draws nothing
Returned(value) ==
    [raised |-> "none", printed |-> <<>>, drawn |-> <<>>, nodata |-> {},
     returned |-> value]

NoCall == [op |-> "none"]
NoResult == Outcome("none", <<>>, <<>>, {})

\* years[mask], values[mask]
Masked(years, values, mask) ==
    LET pos == SelectSeq([i \in 1..Len(years) |-> i], LAMBDA i : mask[i])
    IN  [x |-> [k \in 1..Len(pos) |-> years[pos[k]]],
         y |-> [k \in 1..Len(pos) |-> values[pos[k]]]]

NotNaN(v) == ~isnan(v)
NotNaNOnly(v) == ~isnan(v)
Finite(v) == ~isnan(v) /\ ~isinf(v)

\* mask = ~np.isnan(values)
nan_mask(values) == [i \in 1..Len(values) |-> NotNaN(values[i])]

\* mask = ~np.isnan(ratio) & ~np.isinf(ratio)
finite_mask(values) == [i \in 1..Len(values) |-> Finite(values[i])]

\* years[mask], values[mask]
NotNaNPoints(years, values) == Masked(years, values, nan_mask(values))

\* years[mask], ratio[mask]
FinitePoints(years, values) == Masked(years, values, finite_mask(values))

\* the category test of the Kaya operations (lines 551-557, 674-680,
\* 799-805, 924-930): the category of a row to draw, or None to skip it
KayaCategory(m, cat_col, cats_to_plot, row) ==
    LET loc == MetaLoc(m, KeyOf(row), cat_col)
    IN  IF ~loc.ok THEN None
        ELSE IF loc.value = NaNText \/ ~InSeq(loc.value, cats_to_plot) THEN None
        ELSE IF loc.value \notin DOMAIN CATEGORY_COLORS THEN None
        ELSE loc.value

\* a default that takes all eight categories in every mode
KayaDefaultCategoriesAll(mode, categories) ==
    IF categories = NoCategories THEN ALL_CATEGORIES ELSE categories

\* lines 767-772, 875-880 and 1028-1033
KayaDefaultCategories(mode, categories) ==
    IF categories = NoCategories /\ mode \in {"categories", "both"}
    THEN <<"C1", "C2", "C3">>
    ELSE IF categories = NoCategories THEN ALL_CATEGORIES
    ELSE categories

Msg(text, args) == [text |-> text, args |-> args]

\* mode in ['categories', 'both']
ShowsCategories(mode) == mode \in {"categories", "both"}

\* a test that takes every mode but 'categories' as a request for the IMPs
ShowsImpsUnlessCategories(mode) == mode # "categories"

\* mode in ['imps', 'both']
ShowsImps(mode) == mode \in {"imps", "both"}

(***************************************************************************)
(* plot_timeseries_by_category                                             *)
(***************************************************************************)
WarnNoCategoryColumn == Msg("Category column not found in metadata", <<>>)

\* df_ts.loc[idx].values over the sorted year columns
values_of(row, years) == [i \in 1..Len(years) |-> row.values[years[i]]]

\* lines 143-152: the category of a row to draw, or None to skip it
TimeseriesCategory(m, cat_col, cats_to_plot, row) ==
    LET loc == MetaLoc(m, KeyOf(row), cat_col)
    IN  IF ~loc.ok THEN None
        ELSE IF loc.value = NaNText \/ loc.value \notin DOMAIN CATEGORY_COLORS THEN None
        ELSE IF ~InSeq(loc.value, cats_to_plot) THEN None
        ELSE loc.value

\* one line per row of df_ts whose category is to be drawn
VariableCategoryLines(ax, rows, years, categories) ==
    Flatten([i \in 1..Len(rows) |->
        LET category == categories[i]
            pts == NotNaNPoints(years, values_of(rows[i], years))
        IN  IF category = None THEN <<>>
            ELSE IF Len(pts.x) = 0 THEN <<>>
            ELSE <<Artist(ax, "category", IdxOf(rows[i]), <<>>, category,
                          CATEGORY_COLORS[category], pts.x, pts.y)>>])

\* lines 168-194: the first row of the IMP that has a value is drawn
TimeseriesImpLines(ax, rows, years) ==
    Flatten([n \in 1..Len(IMP_NAMES) |->
        LET imp_name == IMP_NAMES[n]
            found == SelectSeq(rows, LAMBDA r :
                        /\ r.model = IMP_DETAILS[imp_name][1]
                        /\ r.scenario = IMP_SCENARIOS[imp_name]
                        /\ Len(NotNaNPoints(years, values_of(r, years)).x) # 0)
        IN  IF found = <<>> THEN <<>>
            ELSE LET pts == NotNaNPoints(years, values_of(found[1], years))
                 IN  <<Artist(ax, "imp", IdxOf(found[1]), <<>>, imp_name,
                              IMP_DETAILS[imp_name][2], pts.x, pts.y)>>])

plot_timeseries_by_category(df, m, variable, categories, show_imps) ==
    LET cats_to_plot == IF categories # NoCategories THEN categories ELSE ALL_CATEGORIES
        cat_col == _get_category_column(m.columns)
        df_ts == timeseries(df, filter(df, variable))
        years == sorted_columns(df_ts.columns)
    IN  IF cat_col = None
        THEN Outcome("none", <<WarnNoCategoryColumn>>, <<>>, {})
        ELSE IF TimeseriesRaises(filter(df, variable))
        THEN Outcome("ValueError", <<>>, <<>>, {})
        ELSE Outcome("none", <<>>,
                     VariableCategoryLines(1, df_ts.rows, years,
                         [i \in 1..Len(df_ts.rows) |->
                             TimeseriesCategory(m, cat_col, cats_to_plot, df_ts.rows[i])])
                     \o (IF show_imps THEN TimeseriesImpLines(1, df_ts.rows, years) ELSE <<>>),
                     {})

(***************************************************************************)
(* plot_scatter_boxplot_by_category                                        *)
(***************************************************************************)
\* lines 293-309: data_by_category[cat], the values at the year of the rows
\* whose category is cat
data_by_category(m, cat_col, cats_to_plot, rows, year, cat) ==
    LET kept == SelectSeq(rows, LAMBDA r :
                    LET loc == MetaLoc(m, KeyOf(r), cat_col)
                    IN  /\ ~isnan(r.values[year])
                        /\ loc.ok
                        /\ loc.value # NaNText
                        /\ InSeq(loc.value, cats_to_plot)
                        /\ loc.value = cat)
    IN  [k \in 1..Len(kept) |-> kept[k].values[year]]

\* markers that pay no attention to the category of the pathway
ScatterImpMarkersAnyCategory(m, cat_col, cats_to_plot, rows, year) ==
    Flatten([n \in 1..Len(IMP_NAMES) |->
        LET imp_name == IMP_NAMES[n]
            key == <<IMP_DETAILS[imp_name][1], IMP_SCENARIOS[imp_name]>>
            found == SelectSeq(rows, LAMBDA r : KeyOf(r) = key)
        IN  IF found = <<>> THEN <<>>
            ELSE IF isnan(found[1].values[year]) THEN <<>>
            ELSE <<Artist(1, "imp", IdxOf(found[1]), <<>>, imp_name,
                          IMP_DETAILS[imp_name][2], <<0>>, <<found[1].values[year]>>)>>])

\* lines 358-398: the marker of each IMP, from its first row
ScatterImpMarkers(m, cat_col, cats_to_plot, rows, year) ==
    Flatten([n \in 1..Len(IMP_NAMES) |->
        LET imp_name == IMP_NAMES[n]
            key == <<IMP_DETAILS[imp_name][1], IMP_SCENARIOS[imp_name]>>
            found == SelectSeq(rows, LAMBDA r : KeyOf(r) = key)
            loc == MetaLoc(m, key, cat_col)
        IN  IF found = <<>> THEN <<>>
            ELSE IF ~loc.ok THEN <<>>
            ELSE IF loc.value = NaNText \/ ~InSeq(loc.value, cats_to_plot) THEN <<>>
            ELSE IF isnan(found[1].values[year]) THEN <<>>
            ELSE <<Artist(1, "imp", IdxOf(found[1]), <<>>, imp_name,
                          IMP_DETAILS[imp_name][2],
                          <<IndexOf(loc.value, cats_to_plot) - 1>>,
                          <<found[1].values[year]>>)>>])

\* a test that finds every year
YearAlwaysFound(year, columns) == FALSE

\* line 285: year not in df_ts.columns
YearNotFound(year, columns) == ~InSeq(year, columns)

\* positions that count the categories with data only
position_among_filled(filled, k) == k - 1

\* lines 317-319: positions.append(i), the index of the k-th category with
\* data in cats_to_plot
position(filled, k) == filled[k] - 1

plot_scatter_boxplot_by_category(df, m, variable, year, categories, show_imps) ==
    LET cats_to_plot == IF categories # NoCategories THEN categories ELSE ALL_CATEGORIES
        cat_col == _get_category_column(m.columns)
        df_ts == timeseries(df, filter(df, variable))
        data(cat) == data_by_category(m, cat_col, cats_to_plot, df_ts.rows, year, cat)
        filled == SelectSeq([i \in 1..Len(cats_to_plot) |-> i],
                            LAMBDA i : Len(data(cats_to_plot[i])) > 0)
    IN  IF cat_col = None
        THEN Outcome("none", <<WarnNoCategoryColumn>>, <<>>, {})
        ELSE IF TimeseriesRaises(filter(df, variable))
        THEN Outcome("ValueError", <<>>, <<>>, {})
        ELSE IF YearNotFound(year, df_ts.columns)
        THEN Outcome("none",
                     <<Msg("Year not found in data",
                           <<year, sorted_columns(df_ts.columns)>>)>>, <<>>, {})
        ELSE IF \E k \in 1..Len(filled) : cats_to_plot[filled[k]] \notin DOMAIN CATEGORY_COLORS
        THEN Outcome("KeyError", <<>>, <<>>, {})
        ELSE Outcome("none", <<>>,
                \* ax.scatter: a point per value, at the position of its category
                Flatten([k \in 1..Len(filled) |->
                    LET cat == cats_to_plot[filled[k]]
                    IN  [j \in 1..Len(data(cat)) |->
                            Artist(1, "point", <<>>, <<>>, cat, CATEGORY_COLORS[cat],
                                   <<position(filled, k)>>, <<data(cat)[j]>>)]])
                \* ax.boxplot: a box per category that has data
                \o [k \in 1..Len(filled) |->
                        Artist(1, "box", <<>>, <<>>, cats_to_plot[filled[k]],
                               CATEGORY_COLORS[cats_to_plot[filled[k]]],
                               <<position(filled, k)>>, data(cats_to_plot[filled[k]]))]
                \* the n= labels
                \o [k \in 1..Len(filled) |->
                        Artist(1, "count", <<>>, <<>>, cats_to_plot[filled[k]], "black",
                               <<position(filled, k)>>,
                               <<Num(Len(data(cats_to_plot[filled[k]])))>>)]
                \o (IF show_imps
                    THEN ScatterImpMarkers(m, cat_col, cats_to_plot, df_ts.rows, year)
                    ELSE <<>>),
                {})

(***************************************************************************)
(* plot_kaya_variable and plot_kaya_variables                              *)
(***************************************************************************)
\* lines 813-826 and 566-581: only the first row of the IMP is looked at
VariableImpLines(ax, rows, years) ==
    Flatten([n \in 1..Len(IMP_NAMES) |->
        LET imp_name == IMP_NAMES[n]
            found == SelectSeq(rows, LAMBDA r :
                        /\ r.model = IMP_DETAILS[imp_name][1]
                        /\ r.scenario = IMP_SCENARIOS[imp_name])
        IN  IF found = <<>> THEN <<>>
            ELSE LET pts == NotNaNPoints(years, values_of(found[1], years))
                 IN  IF Len(pts.x) = 0 THEN <<>>
                     ELSE <<Artist(ax, "imp", IdxOf(found[1]), <<>>, imp_name,
                                   IMP_DETAILS[imp_name][2], pts.x, pts.y)>>])

VariablePanel(ax, df, m, cat_col, cats_to_plot, df_filtered, mode) ==
    LET df_ts == timeseries(df, df_filtered)
        years == sorted_columns(df_ts.columns)
    IN  (IF ShowsCategories(mode)
         THEN VariableCategoryLines(ax, df_ts.rows, years,
                  [i \in 1..Len(df_ts.rows) |->
                      KayaCategory(m, cat_col, cats_to_plot, df_ts.rows[i])])
         ELSE <<>>)
        \o
        (IF ShowsImps(mode) THEN VariableImpLines(ax, df_ts.rows, years) ELSE <<>>)

plot_kaya_variable(df, m, variable, mode, categories) ==
    LET cats_to_plot == KayaDefaultCategories(mode, categories)
        cat_col == _get_category_column(m.columns)
        df_filtered == filter(df, variable)
    IN  IF Len(df_filtered) = 0
        THEN Outcome("none", <<>>, <<>>, {1})
        ELSE Outcome("none", <<>>,
                     VariablePanel(1, df, m, cat_col, cats_to_plot, df_filtered, mode), {})

plot_kaya_variables(df, m, mode, categories) ==
    LET cats_to_plot == IF categories # NoCategories THEN categories ELSE ALL_CATEGORIES
        cat_col == _get_category_column(m.columns)
        Empty(ax) == Len(filter(df, KAYA_VARIABLES[ax])) = 0
    IN  Outcome("none", <<>>,
                Flatten([ax \in 1..Len(KAYA_VARIABLES) |->
                    IF Empty(ax) THEN <<>>
                    ELSE VariablePanel(ax, df, m, cat_col, cats_to_plot,
                                       filter(df, KAYA_VARIABLES[ax]), mode)]),
                {ax \in 1..Len(KAYA_VARIABLES) : Empty(ax)})

(***************************************************************************)
(* Ratio alignment, shared by plot_kaya_ratio and plot_kaya_ratios.        *)
(***************************************************************************)
\* sorted(set(ts_num.columns) & set(ts_den.columns))
common_years_of(ts_num, ts_den) ==
    SortedSeq(SeqToSet(ts_num.columns) \cap SeqToSet(ts_den.columns))

\* A lookup that falls back on the last denominator row for a missing key.
den_lookup_fallback(den_rows) ==
    [key \in {KeyOf(den_rows[i]) : i \in 1..Len(den_rows)}
             \cup {<<IMP_DETAILS[n][1], IMP_SCENARIOS[n]>> : n \in DOMAIN IMP_SCENARIOS}
             \cup {<<"GCAM 5.3", "SSP2-26">>} |->
        IF \E i \in 1..Len(den_rows) : KeyOf(den_rows[i]) = key
        THEN den_rows[CHOOSE i \in 1..Len(den_rows) :
                        /\ KeyOf(den_rows[i]) = key
                        /\ \A j \in (i + 1)..Len(den_rows) : KeyOf(den_rows[j]) # key]
        ELSE den_rows[Len(den_rows)]]

\* den_lookup[(model, scenario)] = idx_den: a later row replaces an earlier one
den_lookup(den_rows) ==
    [key \in {KeyOf(den_rows[i]) : i \in 1..Len(den_rows)} |->
        den_rows[CHOOSE i \in 1..Len(den_rows) :
                    /\ KeyOf(den_rows[i]) = key
                    /\ \A j \in (i + 1)..Len(den_rows) : KeyOf(den_rows[j]) # key]]

\* ts_num.loc[idx_num].values / ts_den.loc[idx_den].values
ratio_of(num_row, den_row, common_years) ==
    [i \in 1..Len(common_years) |->
        Div(num_row.values[common_years[i]], den_row.values[common_years[i]])]

RatioCategoryLines(ax, m, cat_col, cats_to_plot, num_rows, lookup, common_years) ==
    Flatten([i \in 1..Len(num_rows) |->
        LET row == num_rows[i]
            category == KayaCategory(m, cat_col, cats_to_plot, row)
        IN  IF KeyOf(row) \notin DOMAIN lookup THEN <<>>
            ELSE IF category = None THEN <<>>
            ELSE LET den_row == lookup[KeyOf(row)]
                     pts == FinitePoints(common_years, ratio_of(row, den_row, common_years))
                 IN  IF Len(pts.x) = 0 THEN <<>>
                     ELSE <<Artist(ax, "category", IdxOf(row), IdxOf(den_row), category,
                                   CATEGORY_COLORS[category], pts.x, pts.y)>>])

\* an overlay that goes on to the next numerator row of the pathway when a
\* row has no quotient to show
RatioImpLinesAnyRow(ax, num_rows, lookup, common_years) ==
    Flatten([n \in 1..Len(IMP_NAMES) |->
        LET imp_name == IMP_NAMES[n]
            key == <<IMP_DETAILS[imp_name][1], IMP_SCENARIOS[imp_name]>>
            found == SelectSeq(num_rows, LAMBDA r :
                        /\ KeyOf(r) = key
                        /\ key \in DOMAIN lookup
                        /\ Len(FinitePoints(common_years,
                                            ratio_of(r, lookup[key], common_years)).x) # 0)
        IN  IF found = <<>> THEN <<>>
            ELSE <<Artist(ax, "imp", IdxOf(found[1]), IdxOf(lookup[key]), imp_name,
                          IMP_DETAILS[imp_name][2],
                          FinitePoints(common_years,
                                       ratio_of(found[1], lookup[key], common_years)).x,
                          FinitePoints(common_years,
                                       ratio_of(found[1], lookup[key], common_years)).y)>>])

\* lines 684-704 and 940-958: the first numerator row of the IMP, over the
\* denominator row of the lookup
RatioImpLines(ax, num_rows, lookup, common_years) ==
    Flatten([n \in 1..Len(IMP_NAMES) |->
        LET imp_name == IMP_NAMES[n]
            key == <<IMP_DETAILS[imp_name][1], IMP_SCENARIOS[imp_name]>>
            found == SelectSeq(num_rows, LAMBDA r : KeyOf(r) = key)
        IN  IF key \notin DOMAIN lookup THEN <<>>
            ELSE IF found = <<>> THEN <<>>
            ELSE LET den_row == lookup[key]
                     pts == FinitePoints(common_years, ratio_of(found[1], den_row, common_years))
                 IN  IF Len(pts.x) = 0 THEN <<>>
                     ELSE <<Artist(ax, "imp", IdxOf(found[1]), IdxOf(den_row), imp_name,
                                   IMP_DETAILS[imp_name][2], pts.x, pts.y)>>])

RatioPanel(ax, df, m, cat_col, cats_to_plot, df_num, df_den, mode) ==
    LET ts_num == timeseries(df, df_num)
        ts_den == timeseries(df, df_den)
        common_years == common_years_of(ts_num, ts_den)
        lookup == den_lookup(ts_den.rows)
    IN  (IF ShowsCategories(mode)
         THEN RatioCategoryLines(ax, m, cat_col, cats_to_plot, ts_num.rows, lookup, common_years)
         ELSE <<>>)
        \o
        (IF ShowsImps(mode)
         THEN RatioImpLines(ax, ts_num.rows, lookup, common_years)
         ELSE <<>>)

plot_kaya_ratio(df, m, numerator, denominator, mode, categories) ==
    LET cats_to_plot == KayaDefaultCategories(mode, categories)
        cat_col == _get_category_column(m.columns)
        df_num == filter(df, numerator)
        df_den == filter(df, denominator)
    IN  IF Len(df_num) = 0 \/ Len(df_den) = 0
        THEN Outcome("none", <<>>, <<>>, {1})
        ELSE Outcome("none", <<>>,
                     RatioPanel(1, df, m, cat_col, cats_to_plot, df_num, df_den, mode), {})

plot_kaya_ratios(df, m, mode, categories) ==
    LET cats_to_plot == IF categories # NoCategories THEN categories ELSE ALL_CATEGORIES
        cat_col == _get_category_column(m.columns)
        Empty(ax) == \/ Len(filter(df, KAYA_RATIOS[ax][1])) = 0
                     \/ Len(filter(df, KAYA_RATIOS[ax][2])) = 0
    IN  Outcome("none", <<>>,
                Flatten([ax \in 1..Len(KAYA_RATIOS) |->
                    IF Empty(ax) THEN <<>>
                    ELSE RatioPanel(ax, df, m, cat_col, cats_to_plot,
                                    filter(df, KAYA_RATIOS[ax][1]),
                                    filter(df, KAYA_RATIOS[ax][2]), mode)]),
                {ax \in 1..Len(KAYA_RATIOS) : Empty(ax)})

(***************************************************************************)
(* plot_kaya_decomposition: five panels drawn by plot_kaya_variable and    *)
(* plot_kaya_ratio on the axes of a 2 x 3 grid, and a legend panel.         *)
(***************************************************************************)
\* what an operation called with ax=axs[..] leaves on that axes
OnAxes(ax, outcome) ==
    [outcome EXCEPT
        !.drawn = [i \in 1..Len(outcome.drawn) |-> [outcome.drawn[i] EXCEPT !.ax = ax]],
        !.nodata = IF outcome.nodata = {} THEN {} ELSE {ax}]

\* lines 1050-1060: the handles of the legend panel
LegendHandles(ax, mode) ==
    (IF ShowsImps(mode)
     THEN [n \in 1..Len(IMP_NAMES) |->
              Artist(ax, "handle", <<>>, <<>>, IMP_NAMES[n], IMP_DETAILS[IMP_NAMES[n]][2],
                     <<>>, <<>>)]
     ELSE <<>>)
    \o (IF ShowsCategories(mode)
        THEN <<Artist(ax, "handle", <<>>, <<>>, "Paris-compliant", "grey", <<>>, <<>>)>>
        ELSE <<>>)

\* the categories handed to every panel take the place of the default of
\* the single-panel operations
plot_kaya_decomposition(df, m, mode, categories) ==
    LET cats_to_plot == KayaDefaultCategories(mode, categories)
        co2_var == "Emissions|CO2|Energy and Industrial Processes"
        pop_var == "Population"
        gdp_var == "GDP|PPP"
        energy_var == "Primary Energy"
        panels ==
            <<OnAxes(1, plot_kaya_variable(df, m, co2_var, mode, cats_to_plot)),
              OnAxes(2, plot_kaya_variable(df, m, pop_var, mode, cats_to_plot)),
              OnAxes(3, plot_kaya_ratio(df, m, gdp_var, pop_var, mode, cats_to_plot)),
              Outcome("none", <<>>, LegendHandles(4, mode), {}),
              OnAxes(5, plot_kaya_ratio(df, m, energy_var, gdp_var, mode, cats_to_plot)),
              OnAxes(6, plot_kaya_ratio(df, m, co2_var, energy_var, mode, cats_to_plot))>>
    IN  Outcome("none",
                Flatten([k \in 1..Len(panels) |-> panels[k].printed]),
                Flatten([k \in 1..Len(panels) |-> panels[k].drawn]),
                UNION {panels[k].nodata : k \in 1..Len(panels)})

(***************************************************************************)
(* create_kaya_explorer: update_ratio                                      *)
(***************************************************************************)
kaya_vars ==
    [f \in {"CO2 Emissions", "GDP (PPP)", "Population", "Primary Energy"} |->
        CASE f = "CO2 Emissions"  -> "Emissions|CO2|Energy and Industrial Processes"
          [] f = "GDP (PPP)"      -> "GDP|PPP"
          [] f = "Population"     -> "Population"
          [] f = "Primary Energy" -> "Primary Energy"]

KeyYears == <<2020, 2050, 2100>>

\* a list that names both variables whichever is missing
missing_both(df_num, df_den, numerator, denominator) == <<numerator, denominator>>

\* lines 1275-1279: the variables without a row for the pathway
missing_of(df_num, df_den, numerator, denominator) ==
    (IF Len(df_num) = 0 THEN <<numerator>> ELSE <<>>)
    \o (IF Len(df_den) = 0 THEN <<denominator>> ELSE <<>>)

update_ratio(df, imp_name, numerator, denominator, year) ==
    IF numerator = denominator
    THEN Outcome("none", <<Msg("select different variables", <<>>)>>, <<>>, {})
    ELSE
    LET scenario_name == IMP_SCENARIOS[imp_name]
        model_name == IMP_DETAILS[imp_name][1]
        df_num == filter_pathway(df, model_name, scenario_name, kaya_vars[numerator])
        df_den == filter_pathway(df, model_name, scenario_name, kaya_vars[denominator])
    IN  IF Len(df_num) > 0 /\ Len(df_den) > 0
        THEN LET ts_num == timeseries(df, df_num)
                 ts_den == timeseries(df, df_den)
                 common_years == common_years_of(ts_num, ts_den)
                 ratio == ratio_of(ts_num.rows[1], ts_den.rows[1], common_years)
                 pts == FinitePoints(common_years, ratio)
                 shown == SelectSeq(KeyYears, LAMBDA y : InSeq(y, common_years))
             IN  Outcome("none",
                         <<Msg("ratio for", <<numerator, denominator, imp_name>>)>>
                         \o [k \in 1..Len(shown) |->
                               Msg("year value",
                                   <<shown[k], ratio[IndexOf(shown[k], common_years)]>>)],
                         <<Artist(1, "imp", IdxOf(ts_num.rows[1]), IdxOf(ts_den.rows[1]),
                                  imp_name, IMP_DETAILS[imp_name][2], pts.x, pts.y),
                           Artist(1, "vline", <<>>, <<>>, "selected year", "black",
                                  <<year>>, <<>>)>>,
                         {})
        ELSE Outcome("none",
                     <<Msg("cannot compute ratio for", <<imp_name>>),
                       Msg("variables not available",
                           missing_of(df_num, df_den, numerator, denominator))>>,
                     <<>>, {})

(***************************************************************************)
(* create_kaya_explorer: update_values                                     *)
(***************************************************************************)
\* kaya_vars.items(): the friendly names in the order of the dictionary
kaya_names == <<"CO2 Emissions", "GDP (PPP)", "Population", "Primary Energy">>

\* x * k for a float x and a positive integer k
Times(x, k) == IF x[1] = "fin" THEN Fin(x[2] * k, x[3]) ELSE x

\* lines 1173-1199: what the loop finds for one variable, the value of the
\* first row at the year, or why there is none
LookUp(df, model_name, scenario_name, friendly_name, year) ==
    LET df_filtered == filter_pathway(df, model_name, scenario_name, kaya_vars[friendly_name])
        ts == timeseries(df, df_filtered)
    IN  IF Len(df_filtered) > 0
        THEN IF InSeq(year, ts.columns)
             THEN [found |-> TRUE, line |-> Msg("value", <<friendly_name, ts.rows[1].values[year]>>)]
             ELSE [found |-> FALSE, line |-> Msg("no data for year", <<friendly_name, year>>)]
        ELSE [found |-> FALSE, line |-> Msg("variable not available", <<friendly_name>>)]

\* a choice of block that says nothing when variables are missing
ratios_or_nothing(values, missing_vars) ==
    IF Len(values) = 4 THEN "ratios" ELSE "nothing"

\* lines 1202 and 1218: if len(values) == 4 ... elif missing_vars
ratios_or_warning(values, missing_vars) ==
    IF Len(values) = 4 THEN "ratios"
    ELSE IF missing_vars # <<>> THEN "warning"
    ELSE "nothing"

update_values(df, imp_name, year) ==
    LET scenario_name == IMP_SCENARIOS[imp_name]
        model_name == IMP_DETAILS[imp_name][1]
        looked == [k \in 1..Len(kaya_names) |->
                     LookUp(df, model_name, scenario_name, kaya_names[k], year)]
        values == SelectSeq(looked, LAMBDA l : l.found)
        missing == SelectSeq(looked, LAMBDA l : ~l.found)
        missing_vars == [k \in 1..Len(missing) |-> missing[k].line.args[1]]
        value(friendly_name) == looked[IndexOf(friendly_name, kaya_names)].line.args[2]
        block == ratios_or_warning(values, missing_vars)
    IN  Outcome("none",
            <<Msg("description", <<imp_name>>), Msg("model", <<model_name>>),
              Msg("values in", <<year>>)>>
            \o [k \in 1..Len(looked) |-> looked[k].line]
            \o (CASE block = "ratios" ->
                     LET pop == value("Population")
                         gdp == value("GDP (PPP)")
                         energy == value("Primary Energy")
                         co2 == value("CO2 Emissions")
                     IN  <<Msg("kaya ratios", <<>>),
                           Msg("gdp per capita", <<Times(Div(gdp, pop), 1000)>>),
                           Msg("energy intensity", <<Div(energy, gdp)>>),
                           Msg("carbon intensity", <<Div(co2, energy)>>)>>
                 [] block = "warning" -> <<Msg("ratios not computable", <<>>)>>
                 [] OTHER -> <<>>),
            <<>>, {})

(***************************************************************************)
(* create_kaya_explorer: the four controls and the two output areas.  In   *)
(* the explorer, call holds the values of the controls and result holds    *)
(* what the two Output widgets show.  The handlers of a change run to the   *)
(* end before the next change is handled.                                  *)
(***************************************************************************)
Controls(imp_name, year, numerator, denominator) ==
    [op |-> "create_kaya_explorer", imp_name |-> imp_name, year |-> year,
     numerator |-> numerator, denominator |-> denominator]

\* lines 1129-1155: the values of the controls at construction
InitialControls == Controls("LD", 2050, "GDP (PPP)", "Population")

\* update_values(imp_dropdown.value, year_slider.value) into values_output
ShowValues(df, controls, panels) ==
    [panels EXCEPT !.values = update_values(df, controls.imp_name, controls.year)]

\* update_ratio(imp_dropdown.value, numerator_dropdown.value,
\* denominator_dropdown.value, year_slider.value) into ratio_output
ShowRatio(df, controls, panels) ==
    [panels EXCEPT !.ratio = update_ratio(df, controls.imp_name, controls.numerator,
                                          controls.denominator, controls.year)]

\* a handler of the year slider that leaves the ratio panel alone
on_year_change_values_only(df, controls, panels) == ShowValues(df, controls, panels)

\* lines 1284-1285 and 1292-1298: a change of the pathway or of the year
\* runs update_values and update_ratio
on_imp_change(df, controls, panels) ==
    ShowRatio(df, controls, ShowValues(df, controls, panels))

on_year_change(df, controls, panels) ==
    ShowRatio(df, controls, ShowValues(df, controls, panels))

\* lines 1285 and 1300-1301: a change of the numerator or of the
\* denominator runs update_ratio
on_ratio_change(df, controls, panels) == ShowRatio(df, controls, panels)

(***************************************************************************)
(* Inputs.  The datasets hold one pathway that is an IMP (LD) and one that *)
(* is not, the IMP in two regions; rows are listed in index order.         *)
(***************************************************************************)
MaxRatioRows == 3
MaxVal == 2

LDKey == <<IMP_DETAILS["LD"][1], IMP_SCENARIOS["LD"]>>
OtherKey == <<"GCAM 5.3", "SSP2-26">>
DataKeys == {LDKey, OtherKey}

DataIndex ==
    << <<OtherKey[1], OtherKey[2], "World">>,
       <<LDKey[1], LDKey[2], "R5ASIA">>,
       <<LDKey[1], LDKey[2], "World">> >>

\* one slot per (index, variable), in index order
SlotsOf(variables) ==
    Flatten([i \in 1..Len(DataIndex) |->
        [k \in 1..Len(variables) |->
            [model |-> DataIndex[i][1], scenario |-> DataIndex[i][2],
             region |-> DataIndex[i][3], variable |-> variables[k]]]])

\* the values a record holds: missing, zero, or maxval
Cells(maxval) == {NaN, Num(0), Num(maxval)}

RowValues(cells) == {f \in [Years -> cells] : \E y \in Years : ~isnan(f[y])}

RowsOf(slots, chosen, values) ==
    LET ids == SortedSeq(chosen)
    IN  [k \in 1..Len(ids) |->
            [model |-> slots[ids[k]].model, scenario |-> slots[ids[k]].scenario,
             region |-> slots[ids[k]].region, variable |-> slots[ids[k]].variable,
             values |-> values[ids[k]]]]

\* df_pyam is some dataset of at most maxrows rows over the slots
DrawDataset(slots, maxrows, cells, orders) ==
    \E chosen \in {c \in SUBSET (1..Len(slots)) : Cardinality(c) <= maxrows} :
        \E values \in [chosen -> RowValues(cells)], order \in orders :
            df_pyam = [rows |-> RowsOf(slots, chosen, values), year_order |-> order]

AscendingYears == SortedSeq(Years)

DescendingYears == [i \in 1..Len(AscendingYears) |-> AscendingYears[Len(AscendingYears) + 1 - i]]

CallOf(op, variable, numerator, denominator, mode, categories, show_imps, year, imp_name) ==
    [op |-> op, variable |-> variable, numerator |-> numerator,
     denominator |-> denominator, mode |-> mode, categories |-> categories,
     show_imps |-> show_imps, year |-> year, imp_name |-> imp_name]

(***************************************************************************)
(* Calls of the ratio operations.  The operations never change the dataset *)
(* or the metadata, so one call per behaviour shows all they can do.       *)
(***************************************************************************)
Idle == call.op = "none"

PlotKayaRatio(numerators, denominators, modes, category_args) ==
    \E numerator \in numerators, denominator \in denominators,
       mode \in modes, categories \in category_args :
        /\ Idle
        /\ call' = CallOf("plot_kaya_ratio", None, numerator, denominator, mode,
                          categories, FALSE, 0, None)
        /\ result' = plot_kaya_ratio(df_pyam, meta, numerator, denominator, mode, categories)
        /\ UNCHANGED <<df_pyam, meta>>

PlotKayaDecomposition(modes, category_args) ==
    \E mode \in modes, categories \in category_args :
        /\ Idle
        /\ call' = CallOf("plot_kaya_decomposition", None, None, None, mode, categories,
                          FALSE, 0, None)
        /\ result' = plot_kaya_decomposition(df_pyam, meta, mode, categories)
        /\ UNCHANGED <<df_pyam, meta>>

PlotKayaRatios(modes, category_args) ==
    \E mode \in modes, categories \in category_args :
        /\ Idle
        /\ call' = CallOf("plot_kaya_ratios", None, None, None, mode, categories,
                          FALSE, 0, None)
        /\ result' = plot_kaya_ratios(df_pyam, meta, mode, categories)
        /\ UNCHANGED <<df_pyam, meta>>

UpdateRatio(imp_names, friendly_names, years) ==
    \E imp_name \in imp_names, numerator \in friendly_names,
       denominator \in friendly_names, year \in years :
        /\ Idle
        /\ call' = CallOf("update_ratio", None, numerator, denominator, None,
                          NoCategories, FALSE, year, imp_name)
        /\ result' = update_ratio(df_pyam, imp_name, numerator, denominator, year)
        /\ UNCHANGED <<df_pyam, meta>>

RatioMetas ==
    {[columns |-> <<"Category">>, category |-> c] : c \in [DataKeys -> {"C1"}]}

InitRatio ==
    /\ DrawDataset(SlotsOf(<<"GDP|PPP", "Population">>), MaxRatioRows,
                   Cells(MaxVal), {AscendingYears})
    /\ meta \in RatioMetas
    /\ call = NoCall
    /\ result = NoResult

NextRatio ==
    \/ PlotKayaRatio({"GDP|PPP"}, {"Population"}, {"imps", "categories", "both"}, {NoCategories})
    \/ PlotKayaRatios({"imps", "categories", "both"}, {NoCategories})
    \/ UpdateRatio({"LD"}, {"GDP (PPP)", "Population"}, {2050})

SpecRatio == InitRatio /\ [][NextRatio]_vars

(***************************************************************************)
(* Calls of the category / IMP plotting operations.                        *)
(***************************************************************************)
MaxPlotRows == 2

PlotTimeseriesByCategory(variables, category_args) ==
    \E variable \in variables, categories \in category_args, show_imps \in BOOLEAN :
        /\ Idle
        /\ call' = CallOf("plot_timeseries_by_category", variable, None, None, None,
                          categories, show_imps, 0, None)
        /\ result' = plot_timeseries_by_category(df_pyam, meta, variable, categories, show_imps)
        /\ UNCHANGED <<df_pyam, meta>>

PlotScatterBoxplotByCategory(variables, years, category_args) ==
    \E variable \in variables, year \in years, categories \in category_args,
       show_imps \in BOOLEAN :
        /\ Idle
        /\ call' = CallOf("plot_scatter_boxplot_by_category", variable, None, None, None,
                          categories, show_imps, year, None)
        /\ result' = plot_scatter_boxplot_by_category(df_pyam, meta, variable, year,
                                                      categories, show_imps)
        /\ UNCHANGED <<df_pyam, meta>>

PlotKayaVariable(variables, modes, category_args) ==
    \E variable \in variables, mode \in modes, categories \in category_args :
        /\ Idle
        /\ call' = CallOf("plot_kaya_variable", variable, None, None, mode, categories,
                          FALSE, 0, None)
        /\ result' = plot_kaya_variable(df_pyam, meta, variable, mode, categories)
        /\ UNCHANGED <<df_pyam, meta>>

PlotKayaVariables(modes, category_args) ==
    \E mode \in modes, categories \in category_args :
        /\ Idle
        /\ call' = CallOf("plot_kaya_variables", None, None, None, mode, categories,
                          FALSE, 0, None)
        /\ result' = plot_kaya_variables(df_pyam, meta, mode, categories)
        /\ UNCHANGED <<df_pyam, meta>>

\* a category cell: missing, two of the eight labels, or another label
CategoryCells == {NaNText, "C1", "C5", "failed-vetting"}

\* metadata with a category column, some pathways possibly without an entry,
\* and metadata without any category column
PlotMetas ==
    {[columns |-> <<"Category">>, category |-> c] :
        c \in UNION {[K -> CategoryCells] : K \in SUBSET DataKeys}}
    \cup {[columns |-> <<"Ssp_family">>, category |-> [k \in DataKeys |-> NaNText]]}

Modes == {"imps", "categories", "both"}
CategoryArgs == {NoCategories, <<"failed-vetting", "C1">>}

Init ==
    /\ DrawDataset(SelectSeq(SlotsOf(<<"GDP|PPP", "Population">>),
                             LAMBDA slot : slot.variable = "GDP|PPP" \/ IdxOf(slot) = DataIndex[3]),
                   MaxPlotRows, {NaN, Num(MaxVal)}, {AscendingYears})
    /\ meta \in PlotMetas
    /\ call = NoCall
    /\ result = NoResult

Next ==
    \/ PlotTimeseriesByCategory({"GDP|PPP"}, CategoryArgs)
    \/ PlotScatterBoxplotByCategory({"GDP|PPP"}, Years, CategoryArgs)
    \/ PlotKayaVariable({"GDP|PPP"}, Modes, CategoryArgs)
    \/ PlotKayaVariables(Modes, CategoryArgs)
    \/ PlotKayaRatio({"GDP|PPP"}, {"Population"}, Modes, CategoryArgs)
    \/ PlotKayaRatios(Modes, CategoryArgs)

Spec == Init /\ [][Next]_vars

(***************************************************************************)
(* Calls of the Kaya operations under every display mode, one of them a    *)
(* value that is none of the documented three.                             *)
(***************************************************************************)
MaxModeRows == 2

AnyMode == Modes \cup {"lines"}

ModeMetas ==
    {[columns |-> <<"Category">>, category |-> c] : c \in [DataKeys -> {"C1", "C5"}]}

InitModes ==
    /\ DrawDataset(SelectSeq(SlotsOf(<<"GDP|PPP", "Population">>),
                             LAMBDA slot : slot.region = "World"),
                   MaxModeRows, {NaN, Num(MaxVal)}, {AscendingYears})
    /\ meta \in ModeMetas
    /\ call = NoCall
    /\ result = NoResult

NextModes ==
    \/ PlotKayaVariable({"GDP|PPP"}, AnyMode, CategoryArgs)
    \/ PlotKayaVariables(AnyMode, CategoryArgs)
    \/ PlotKayaRatio({"GDP|PPP"}, {"Population"}, AnyMode, CategoryArgs)
    \/ PlotKayaRatios(AnyMode, CategoryArgs)

SpecModes == InitModes /\ [][NextModes]_vars

(***************************************************************************)
(* Calls that overlay the reference pathways, on datasets that hold up to  *)
(* MaxImpRows rows of the pathway LD, in two regions.                       *)
(***************************************************************************)
MaxImpRows == 3

ImpMetas ==
    RatioMetas \cup {[columns |-> <<"Ssp_family">>, category |-> [k \in DataKeys |-> NaNText]]}

InitImps ==
    /\ DrawDataset(SelectSeq(SlotsOf(<<"GDP|PPP", "Population">>),
                             LAMBDA slot : KeyOf(slot) = LDKey),
                   MaxImpRows, {NaN, Num(MaxVal)}, {AscendingYears})
    /\ meta \in ImpMetas
    /\ call = NoCall
    /\ result = NoResult

NextImps ==
    \/ PlotTimeseriesByCategory({"GDP|PPP"}, {NoCategories})
    \/ PlotScatterBoxplotByCategory({"GDP|PPP"}, Years, {NoCategories})
    \/ PlotKayaVariable({"GDP|PPP"}, Modes, {NoCategories})
    \/ PlotKayaVariables(Modes, {NoCategories})
    \/ PlotKayaRatio({"GDP|PPP"}, {"Population"}, Modes, {NoCategories})
    \/ PlotKayaRatios(Modes, {NoCategories})

SpecImps == InitImps /\ [][NextImps]_vars

(***************************************************************************)
(* The explorer: any sequence of changes of the four controls, on a        *)
(* dataset that holds up to MaxExplorerRows rows of the pathway LD.         *)
(***************************************************************************)
MaxExplorerRows == 4

\* the pathways of the dropdown the user moves between
ExplorerImps == {"LD", "CurPol"}

\* positions of the slider: two years that can hold data and one that
\* never does
SliderYears == Years \cup {2060}

ExplorerSlots ==
    SelectSeq(SlotsOf([k \in 1..Len(kaya_names) |-> kaya_vars[kaya_names[k]]]),
              LAMBDA slot : /\ KeyOf(slot) = LDKey
                            /\ slot.region = "World" \/ slot.variable = "Population")

SelectImp ==
    \E imp_name \in ExplorerImps \ {call.imp_name} :
        /\ call' = [call EXCEPT !.imp_name = imp_name]
        /\ result' = on_imp_change(df_pyam, call', result)
        /\ UNCHANGED <<df_pyam, meta>>

MoveYear ==
    \E year \in SliderYears \ {call.year} :
        /\ call' = [call EXCEPT !.year = year]
        /\ result' = on_year_change(df_pyam, call', result)
        /\ UNCHANGED <<df_pyam, meta>>

SelectNumerator ==
    \E numerator \in SeqToSet(kaya_names) \ {call.numerator} :
        /\ call' = [call EXCEPT !.numerator = numerator]
        /\ result' = on_ratio_change(df_pyam, call', result)
        /\ UNCHANGED <<df_pyam, meta>>

SelectDenominator ==
    \E denominator \in SeqToSet(kaya_names) \ {call.denominator} :
        /\ call' = [call EXCEPT !.denominator = denominator]
        /\ result' = on_ratio_change(df_pyam, call', result)
        /\ UNCHANGED <<df_pyam, meta>>

\* lines 1287-1289: the two initial updates
InitExplorer ==
    /\ DrawDataset(ExplorerSlots, MaxExplorerRows, {NaN, Num(MaxVal)}, {AscendingYears})
    /\ meta \in RatioMetas
    /\ call = InitialControls
    /\ result = [values |-> update_values(df_pyam, "LD", 2050),
                 ratio |-> update_ratio(df_pyam, "LD", "GDP (PPP)", "Population", 2050)]

NextExplorer ==
    \/ SelectImp
    \/ MoveYear
    \/ SelectNumerator
    \/ SelectDenominator

SpecExplorer == InitExplorer /\ [][NextExplorer]_vars

(***************************************************************************)
(* Calls of the seven operations that colour by category, with the         *)
(* default list of categories and with a list of one category.             *)
(***************************************************************************)
MaxCategoryRows == 2

InitCategories ==
    /\ DrawDataset(SelectSeq(SlotsOf(<<"GDP|PPP", "Population">>),
                             LAMBDA slot : slot.region = "World"),
                   MaxCategoryRows, {NaN, Num(MaxVal)}, {AscendingYears})
    /\ meta \in ModeMetas
    /\ call = NoCall
    /\ result = NoResult

NextCategories ==
    \/ PlotTimeseriesByCategory({"GDP|PPP"}, {NoCategories, <<"C5">>})
    \/ PlotScatterBoxplotByCategory({"GDP|PPP"}, Years, {NoCategories, <<"C5">>})
    \/ PlotKayaVariable({"GDP|PPP"}, Modes, {NoCategories, <<"C5">>})
    \/ PlotKayaVariables(Modes, {NoCategories, <<"C5">>})
    \/ PlotKayaRatio({"GDP|PPP"}, {"Population"}, Modes, {NoCategories, <<"C5">>})
    \/ PlotKayaRatios(Modes, {NoCategories, <<"C5">>})
    \/ PlotKayaDecomposition(Modes, {NoCategories, <<"C5">>})

SpecCategories == InitCategories /\ [][NextCategories]_vars

(***************************************************************************)
(* Calls of the operations that draw lines over the years, on datasets     *)
(* whose year columns come in increasing or in decreasing order.           *)
(***************************************************************************)
MaxYearRows == 2

InitYears ==
    /\ DrawDataset(SelectSeq(SlotsOf(<<"GDP|PPP", "Population">>),
                             LAMBDA slot : slot.region = "World"),
                   MaxYearRows, {NaN, Num(1), Num(MaxVal)}, {AscendingYears, DescendingYears})
    /\ meta \in RatioMetas
    /\ call = NoCall
    /\ result = NoResult

NextYears ==
    \/ PlotTimeseriesByCategory({"GDP|PPP"}, {NoCategories})
    \/ PlotKayaVariable({"GDP|PPP"}, {"both"}, {NoCategories})
    \/ PlotKayaVariables({"both"}, {NoCategories})
    \/ PlotKayaRatio({"GDP|PPP"}, {"Population"}, {"both"}, {NoCategories})
    \/ PlotKayaRatios({"both"}, {NoCategories})
    \/ UpdateRatio({"LD"}, {"GDP (PPP)", "Population"}, {2050})

SpecYears == InitYears /\ [][NextYears]_vars

(***************************************************************************)
(* Properties of the ratio operations.  They are stated on the dataset     *)
(* itself: the rows of a variable, the years in which a variable holds     *)
(* data, and the quotient by cross-multiplication.                         *)
(***************************************************************************)
RowsWith(variable) == {r \in SeqToSet(df_pyam.rows) : r.variable = variable}

HasData(variable, y) == \E r \in RowsWith(variable) : r.values[y][1] = "fin"

SharedYears(pair) == {y \in Years : HasData(pair[1], y) /\ HasData(pair[2], y)}

IsRatioCall == call.op \in {"plot_kaya_ratio", "plot_kaya_ratios"}

\* the (numerator, denominator) drawn on an axes of the current call
PairOn(ax) ==
    IF call.op = "plot_kaya_ratios" THEN KAYA_RATIOS[ax]
    ELSE IF call.op = "update_ratio"
    THEN <<kaya_vars[call.numerator], kaya_vars[call.denominator]>>
    ELSE <<call.numerator, call.denominator>>

RatioLines == {i \in 1..Len(result.drawn) : result.drawn[i].kind \in {"category", "imp"}}

Defined(v) == v[1] = "fin"

\* v = n / d, for defined n and d
IsQuotient(v, n, d) ==
    /\ Defined(n) /\ Defined(d) /\ d[2] # 0
    /\ Defined(v) /\ v[3] > 0
    /\ v[2] * d[2] * n[3] = n[2] * d[3] * v[3]

\* C1: every ratio line of plot_kaya_ratio / plot_kaya_ratios is the
\* quotient of a numerator row by a denominator row of the same
\* (model, scenario), has one point for each year that is a column of both
\* variables and has a defined quotient, and has no point for any other year.
C1_QuotientOverCommonYears ==
    IsRatioCall =>
        \A i \in RatioLines :
            LET a == result.drawn[i]
                pair == PairOn(a.ax)
            IN  \E n \in RowsWith(pair[1]), d \in RowsWith(pair[2]) :
                    /\ IdxOf(n) = a.idx /\ IdxOf(d) = a.den_idx /\ KeyOf(n) = KeyOf(d)
                    /\ Len(a.x) = Len(a.y)
                    /\ Cardinality(SeqToSet(a.x)) = Len(a.x)
                    /\ \A k \in 1..Len(a.x) :
                          /\ a.x[k] \in SharedYears(pair)
                          /\ IsQuotient(a.y[k], n.values[a.x[k]], d.values[a.x[k]])
                    /\ \A y \in SharedYears(pair) :
                          (Defined(n.values[y]) /\ Defined(d.values[y]) /\ d.values[y][2] # 0)
                              => InSeq(y, a.x)

\* a ratio line is drawn while the numerator row holds a value in a year
\* that is not a column of the denominator
C1_Witness ==
    /\ IsRatioCall
    /\ \E i \in RatioLines :
          LET a == result.drawn[i]
              pair == PairOn(a.ax)
          IN  /\ Len(a.x) >= 1
              /\ \E n \in RowsWith(pair[1]), y \in Years :
                    /\ IdxOf(n) = a.idx
                    /\ Defined(n.values[y])
                    /\ y \notin SharedYears(pair)

\* C2: no plotted ratio point is NaN or infinite: a year in which the
\* denominator is zero or either side is missing has no point, in
\* plot_kaya_ratio, plot_kaya_ratios and update_ratio; and the first two
\* draw no line without points.
C2_NoNaNOrInfPlotted ==
    (IsRatioCall \/ call.op = "update_ratio") =>
        \A i \in RatioLines :
            LET a == result.drawn[i]
                pair == PairOn(a.ax)
            IN  /\ \A k \in 1..Len(a.y) : Defined(a.y[k])
                /\ \E n \in RowsWith(pair[1]), d \in RowsWith(pair[2]) :
                      /\ IdxOf(n) = a.idx /\ IdxOf(d) = a.den_idx
                      /\ \A y \in Years :
                            (\/ ~Defined(n.values[y])
                             \/ ~Defined(d.values[y])
                             \/ d.values[y][2] = 0) => ~InSeq(y, a.x)
                /\ IsRatioCall => Len(a.x) >= 1

\* a line is drawn for a pair one of whose years has a zero denominator
C2_Witness ==
    /\ call.op = "update_ratio"
    /\ \E i \in RatioLines :
          LET a == result.drawn[i]
              pair == PairOn(a.ax)
          IN  /\ Len(a.x) >= 1
              /\ \E n \in RowsWith(pair[1]), d \in RowsWith(pair[2]), y \in Years :
                    /\ IdxOf(n) = a.idx /\ IdxOf(d) = a.den_idx
                    /\ Defined(n.values[y]) /\ n.values[y][2] # 0
                    /\ Defined(d.values[y]) /\ d.values[y][2] = 0

\* the categories a call draws when its `categories` argument is None
RequestedCategories ==
    IF call.categories # NoCategories THEN SeqToSet(call.categories)
    ELSE IF call.op \in {"plot_kaya_variable", "plot_kaya_ratio", "plot_kaya_decomposition"}
            /\ call.mode \in {"categories", "both"}
    THEN {"C1", "C2", "C3"}
    ELSE SeqToSet(ALL_CATEGORIES)

EightLabels == {"C1", "C2", "C3", "C4", "C5", "C6", "C7", "C8"}

\* what the metadata says of a pathway: its category is one of the eight
\* labels and is requested
CategoryRequested(key) ==
    /\ key \in DOMAIN meta.category
    /\ \E i \in 1..Len(meta.columns) : meta.columns[i] \in {"Category", "category"}
    /\ meta.category[key] \in EightLabels \cap RequestedCategories

\* C3: a pair with rows for only one of the two variables gives no ratio
\* line, no error and no warning, in category mode and in IMP mode; a
\* numerator row whose pair has rows for both variables, a requested
\* category and a defined quotient is drawn in category mode.
C3_OneSidedPairsDropped ==
    IsRatioCall =>
        /\ result.raised = "none"
        /\ result.printed = <<>>
        /\ \A i \in RatioLines :
              LET a == result.drawn[i]
                  pair == PairOn(a.ax)
              IN  /\ \E n \in RowsWith(pair[1]) : IdxOf(n) = a.idx
                  /\ \E d \in RowsWith(pair[2]) : <<d.model, d.scenario>> = <<a.idx[1], a.idx[2]>>
        /\ call.mode \in {"categories", "both"} =>
              \A ax \in 1..(IF call.op = "plot_kaya_ratios" THEN Len(KAYA_RATIOS) ELSE 1) :
                \A n \in RowsWith(PairOn(ax)[1]) :
                  (/\ CategoryRequested(KeyOf(n))
                   /\ \E d \in RowsWith(PairOn(ax)[2]) : KeyOf(d) = KeyOf(n)
                   /\ \A d \in RowsWith(PairOn(ax)[2]) :
                         KeyOf(d) = KeyOf(n) =>
                            \E y \in Years : /\ Defined(n.values[y]) /\ Defined(d.values[y])
                                             /\ d.values[y][2] # 0)
                  => \E i \in RatioLines : /\ result.drawn[i].kind = "category"
                                           /\ result.drawn[i].ax = ax
                                           /\ result.drawn[i].idx = IdxOf(n)

\* one pathway has the numerator only and is dropped while another is drawn
C3_Witness ==
    /\ IsRatioCall
    /\ call.mode = "both"
    /\ Len(result.drawn) >= 1
    /\ \E n \in RowsWith(PairOn(1)[1]) :
          /\ \A d \in RowsWith(PairOn(1)[2]) : KeyOf(d) # KeyOf(n)
          /\ \A i \in RatioLines : result.drawn[i].idx # IdxOf(n)
    /\ \E i \in RatioLines : result.drawn[i].kind = "imp"
    /\ \E i \in RatioLines : result.drawn[i].kind = "category"

(***************************************************************************)
(* Properties of the category-coloured operations.                         *)
(***************************************************************************)
PlotOps ==
    {"plot_timeseries_by_category", "plot_scatter_boxplot_by_category",
     "plot_kaya_variables", "plot_kaya_ratios", "plot_kaya_variable", "plot_kaya_ratio"}

Drawn(kinds) == {i \in 1..Len(result.drawn) : result.drawn[i].kind \in kinds}

\* the rows of the variable that hold a value at the year and whose pathway
\* the metadata puts in the category
RowsInCategory(variable, year, cat) ==
    {r \in RowsWith(variable) :
        /\ Defined(r.values[year])
        /\ KeyOf(r) \in DOMAIN meta.category
        /\ meta.category[KeyOf(r)] = cat}

\* C4: in the six category-coloured operations a category-coloured line
\* belongs to a row whose (model, scenario) has a metadata entry with one of
\* the eight labels C1..C8, and the points and boxes of a label are no more
\* than the rows the metadata puts under that label.
C4_OnlyEightLabelCategories ==
    call.op \in PlotOps =>
        /\ \A i \in Drawn({"category"}) :
              LET a == result.drawn[i]
                  key == <<a.idx[1], a.idx[2]>>
              IN  /\ key \in DOMAIN meta.category
                  /\ meta.category[key] = a.label
                  /\ a.label \in EightLabels
        /\ \A i \in Drawn({"point", "box", "count"}) :
              /\ result.drawn[i].label \in EightLabels
              /\ Cardinality({j \in Drawn({"point"}) :
                                 result.drawn[j].label = result.drawn[i].label})
                   <= Cardinality(RowsInCategory(call.variable, call.year,
                                                 result.drawn[i].label))

\* a requested label outside C1..C8 is carried by a row that is left out
\* while the row of another pathway is drawn
C4_Witness ==
    /\ call.op = "plot_timeseries_by_category"
    /\ InSeq("failed-vetting", call.categories)
    /\ \E r \in RowsWith(call.variable) :
          /\ KeyOf(r) \in DOMAIN meta.category
          /\ meta.category[KeyOf(r)] = "failed-vetting"
          /\ \A i \in Drawn({"category"}) : result.drawn[i].idx # IdxOf(r)
    /\ Drawn({"category"}) # {}

\* C6: without a category column each of the six plotting operations
\* prints the warning and draws nothing.
C6_WarnAndReturnEarly ==
    (call.op \in PlotOps /\ _get_category_column(meta.columns) = None) =>
        /\ InSeq(WarnNoCategoryColumn, result.printed)
        /\ result.drawn = <<>>

\* C7: no operation raises.
C7_NoExceptionPropagates == result.raised = "none"

(***************************************************************************)
(* The overlay of the reference pathways.                                  *)
(***************************************************************************)
ImpKey(imp_name) == <<IMP_DETAILS[imp_name][1], IMP_SCENARIOS[imp_name]>>

ImpRequested ==
    \/ call.op \in {"plot_timeseries_by_category", "plot_scatter_boxplot_by_category"}
         /\ call.show_imps
    \/ call.op \in {"plot_kaya_variable", "plot_kaya_variables",
                    "plot_kaya_ratio", "plot_kaya_ratios"}
         /\ call.mode \in {"imps", "both"}

AxesOfCall ==
    IF call.op = "plot_kaya_variables" THEN 1..Len(KAYA_VARIABLES)
    ELSE IF call.op = "plot_kaya_ratios" THEN 1..Len(KAYA_RATIOS)
    ELSE {1}

\* the variable whose rows an axes shows (the numerator, for a ratio)
VariableOn(ax) ==
    IF call.op = "plot_kaya_variables" THEN KAYA_VARIABLES[ax]
    ELSE IF IsRatioCall THEN PairOn(ax)[1]
    ELSE call.variable

ImpDrawn(ax, imp_name) ==
    \E i \in Drawn({"imp"}) : /\ result.drawn[i].ax = ax
                              /\ result.drawn[i].label = imp_name

PathwayRows(variable, key) == {r \in RowsWith(variable) : KeyOf(r) = key}

Position(row) == CHOOSE i \in 1..Len(DataIndex) : DataIndex[i] = IdxOf(row)

\* the first and the last row of a pathway, in index order
FirstRow(variable, key) ==
    CHOOSE r \in PathwayRows(variable, key) :
        \A o \in PathwayRows(variable, key) : Position(r) <= Position(o)

LastRow(variable, key) ==
    CHOOSE r \in PathwayRows(variable, key) :
        \A o \in PathwayRows(variable, key) : Position(o) <= Position(r)

HasQuotient(n, d) ==
    \E y \in Years : Defined(n.values[y]) /\ Defined(d.values[y]) /\ d.values[y][2] # 0

\* the pathway has something to show on the axes: a row with a defined
\* value (at the year, for the scatter plot; of the quotient, for a ratio)
HasDefinedValue(ax, imp_name) ==
    IF IsRatioCall
    THEN \E n \in PathwayRows(PairOn(ax)[1], ImpKey(imp_name)),
            d \in PathwayRows(PairOn(ax)[2], ImpKey(imp_name)) : HasQuotient(n, d)
    ELSE \E r \in PathwayRows(VariableOn(ax), ImpKey(imp_name)) :
            IF call.op = "plot_scatter_boxplot_by_category"
            THEN Defined(r.values[call.year])
            ELSE \E y \in Years : Defined(r.values[y])

HasCategoryColumn == \E i \in 1..Len(meta.columns) : IsCategCol(meta.columns[i])

\* the labels of the requested list that carry a value at the year
LabelsWithData ==
    {cat \in RequestedCategories : RowsInCategory(call.variable, call.year, cat) # {}}

ColumnNames ==
    {"Category", "category", "Category_name", "Policy_category", "sub_categ",
     "CATEG_FLAG", "Ssp_family", "Cat"}

ColumnLists ==
    UNION {{cols \in [1..n -> ColumnNames] :
                \A i, j \in 1..n : cols[i] = cols[j] => i = j} : n \in 0..MaxCols}

GetCategoryColumn ==
    /\ Idle
    /\ call' = [op |-> "_get_category_column"]
    /\ result' = Returned(_get_category_column(meta.columns))
    /\ UNCHANGED <<df_pyam, meta>>

InitCategoryColumn ==
    /\ df_pyam = [rows |-> <<>>, year_order |-> AscendingYears]
    /\ \E cols \in ColumnLists : meta = [columns |-> cols, category |-> <<>>]
    /\ call = NoCall
    /\ result = NoResult

NextCategoryColumn == GetCategoryColumn

SpecCategoryColumn == InitCategoryColumn /\ [][NextCategoryColumn]_vars

\* the name holds the letters c, a, t, e, g in a row, as written
ContainsCateg(col) ==
    \E i \in 1..Len(col) : i + 4 <= Len(col) /\ SubSeq(col, i, i + 4) = "categ"

\* the name holds the letters c, a, t, e, g in a row, each in either case
ContainsCategAnyCase(col) ==
    \E i \in 1..Len(col) :
        /\ i + 4 <= Len(col)
        /\ \A k \in 1..5 : CharAt(col, i + k - 1) \in {CharAt("categ", k), CharAt("CATEG", k)}

\* what the resolution returns when `matching` are the names that contain
\* "categ"
Resolved(columns, matching) ==
    IF \E i \in 1..Len(columns) : columns[i] = "Category" THEN "Category"
    ELSE IF \E i \in 1..Len(columns) : columns[i] = "category" THEN "category"
    ELSE IF \E i \in 1..Len(columns) : columns[i] \in matching
    THEN columns[CHOOSE i \in 1..Len(columns) :
                    /\ columns[i] \in matching
                    /\ \A j \in 1..(i - 1) : columns[j] \notin matching]
    ELSE None

\* C5 as stated: 'Category', else 'category', else the first column whose
\* name contains "categ" as written, else None.
C5_ContainsCategAsWritten ==
    call.op = "_get_category_column" =>
        result.returned = Resolved(meta.columns, {col \in ColumnNames : ContainsCateg(col)})

\* C5, amended: 'Category', else 'category', else the first column whose
\* name contains "categ" in any letter case, else None.
C5_CategoryColumnResolution ==
    call.op = "_get_category_column" =>
        result.returned = Resolved(meta.columns, {col \in ColumnNames : ContainsCategAnyCase(col)})

\* 'Category' is returned though 'category' and a column that merely
\* contains "categ" come before it
C5_Witness ==
    /\ call.op = "_get_category_column"
    /\ result.returned = "Category"
    /\ Len(meta.columns) = 3
    /\ meta.columns[2] = "category"
    /\ ContainsCateg(meta.columns[1])
    /\ meta.columns[3] = "Category"

(***************************************************************************)
(* assign_model_families(meta, min_scenarios)                              *)
(***************************************************************************)
MODEL_FAMILIES ==
    <<"MESSAGE", "REMIND", "AIM", "GCAM", "TIAM", "WITCH", "IMAGE", "POLES", "GEM-E3">>

Digits == {"0", "1", "2", "3", "4", "5", "6", "7", "8", "9"}

\* The automaton of \s*\d+(\.\d+)?(-\d+(\.\d+)?)?$ read from position i:
\* "ws" in the blanks, "int1" and "frac1" in the first number, "int2" and
\* "frac2" in the second, "dot1", "dash", "dot2" when a digit must follow.
RECURSIVE VersionRun(_, _, _)
VersionRun(s, i, state) ==
    IF i > Len(s) THEN state \in {"int1", "frac1", "int2", "frac2"}
    ELSE LET c == CharAt(s, i)
             next == CASE state = "ws" /\ c = " " -> "ws"
                       [] state \in {"ws", "int1"} /\ c \in Digits -> "int1"
                       [] state = "int1" /\ c = "." -> "dot1"
                       [] state \in {"dot1", "frac1"} /\ c \in Digits -> "frac1"
                       [] state \in {"int1", "frac1"} /\ c = "-" -> "dash"
                       [] state \in {"dash", "int2"} /\ c \in Digits -> "int2"
                       [] state = "int2" /\ c = "." -> "dot2"
                       [] state \in {"dot2", "frac2"} /\ c \in Digits -> "frac2"
                       [] OTHER -> "fail"
         IN  IF next = "fail" THEN FALSE ELSE VersionRun(s, i + 1, next)

\* a substitution that leaves the name as it is
re_sub_nothing(model_name) == model_name

\* re.sub of the pattern by '': the leftmost match, which runs to the end
re_sub_version(model_name) ==
    LET starts == {i \in 1..Len(model_name) : VersionRun(model_name, i, "ws")}
    IN  IF starts = {} THEN model_name
        ELSE SubSeq(model_name, 1, (CHOOSE i \in starts : \A j \in starts : i <= j) - 1)

RECURSIVE lstrip(_)
lstrip(s) ==
    IF s = "" THEN ""
    ELSE IF CharAt(s, 1) = " " THEN lstrip(SubSeq(s, 2, Len(s)))
    ELSE s

RECURSIVE rstrip(_)
rstrip(s) ==
    IF s = "" THEN ""
    ELSE IF CharAt(s, Len(s)) = " " THEN rstrip(SubSeq(s, 1, Len(s) - 1))
    ELSE s

strip(s) == lstrip(rstrip(s))

\* str.replace('-', '')
RECURSIVE RemoveHyphens(_)
RemoveHyphens(s) ==
    IF s = "" THEN ""
    ELSE (IF CharAt(s, 1) = "-" THEN "" ELSE CharAt(s, 1))
         \o RemoveHyphens(SubSeq(s, 2, Len(s)))

_extract_model_family(model_name) ==
    LET family == strip(re_sub_version(model_name))
        model_upper == StrUpper(family)
        known == SelectSeq(MODEL_FAMILIES, LAMBDA known_family :
                    StrIn(RemoveHyphens(known_family), RemoveHyphens(model_upper)))
    IN  IF known # <<>> THEN known[1] ELSE family

\* a threshold that also takes the families of exactly min_scenarios
IsSmallFamilyInclusive(count, min_scenarios) == count <= min_scenarios

\* line 1433: family_counts < min_scenarios
IsSmallFamily(count, min_scenarios) == count < min_scenarios

\* DataFrame.__setitem__: a new column goes last, an old one keeps its place
WithColumn(columns, name) == IF InSeq(name, columns) THEN columns ELSE Append(columns, name)

\* a grouping that counts the scenarios of each model name, not of each family
assign_model_families_per_model(m, min_scenarios) ==
    LET index == DOMAIN m.category
        Model == [key \in index |-> key[1]]
        family == [key \in index |-> _extract_model_family(Model[key])]
        small_models == {name \in {Model[key] : key \in index} :
                            Cardinality({key \in index : Model[key] = name}) < min_scenarios}
    IN  Returned([columns |-> WithColumn(WithColumn(m.columns, "Model"), "Model_Family"),
                  Model |-> Model,
                  Model_Family |-> [key \in index |->
                        IF Model[key] \in small_models THEN "Other" ELSE family[key]]] @@ m)

assign_model_families(m, min_scenarios) ==
    LET index == DOMAIN m.category
        Model == [key \in index |-> key[1]]
        family == [key \in index |-> _extract_model_family(Model[key])]
        family_counts == [f \in {family[key] : key \in index} |->
                             Cardinality({key \in index : family[key] = f})]
        small_families == {f \in DOMAIN family_counts :
                              IsSmallFamily(family_counts[f], min_scenarios)}
    IN  Returned([columns |-> WithColumn(WithColumn(m.columns, "Model"), "Model_Family"),
                  Model |-> Model,
                  Model_Family |-> [key \in index |->
                        IF family[key] \in small_families THEN "Other" ELSE family[key]]] @@ m)

(***************************************************************************)
(* assign_assessment_status(meta)                                          *)
(***************************************************************************)
\* a classification that knows "failed" only
GetAssessmentStatusFailedOnly(category) ==
    IF category = NaNText THEN "No assessment"
    ELSE IF InSeq(category, ALL_CATEGORIES) THEN "Climate assessed (C1-C8)"
    ELSE IF StrIn("failed", StrLower(category)) THEN "Failed vetting"
    ELSE "No assessment"

_get_assessment_status(category) ==
    IF category = NaNText THEN "No assessment"
    ELSE IF InSeq(category, ALL_CATEGORIES) THEN "Climate assessed (C1-C8)"
    ELSE IF StrIn("failed", StrLower(category)) \/ StrIn("exclude", StrLower(category))
    THEN "Failed vetting"
    ELSE "No assessment"

\* line 1478: meta_enriched[None] raises KeyError when there is no category
\* column
assign_assessment_status(m) ==
    LET cat_col == _get_category_column(m.columns)
    IN  IF cat_col = None THEN Outcome("KeyError", <<>>, <<>>, {})
        ELSE Returned([columns |-> WithColumn(m.columns, "Assessment_Status"),
                       Assessment_Status |->
                           [key \in DOMAIN m.category |->
                               _get_assessment_status(m.category[key])]] @@ m)

(***************************************************************************)
(* assign_ssp_family(meta)                                                 *)
(***************************************************************************)
\* a cell that holds text
Text(t) == <<"str", t, 1>>

\* int(x) of a finite float: the integer part, towards zero
int(x) == Sign(x[2]) * (Abs(x[2]) \div x[3])

\* f'SSP{val_num}' for val_num in 1..5
SspName(val_num) == "SSP" \o <<"1", "2", "3", "4", "5">>[val_num]

\* lines 1511-1521.  float() of a text that is no number raises ValueError
\* and int() of an infinity raises OverflowError; both are swallowed by the
\* bare except.
_classify_ssp(val) ==
    IF isnan(val) THEN "Other/Unknown"
    ELSE IF val[1] = "str" \/ isinf(val) THEN "Other/Unknown"
    ELSE IF 1 <= int(val) /\ int(val) <= 5 THEN SspName(int(val))
    ELSE "Other/Unknown"

WarnNoSspColumn == Msg("SSP family column not found in metadata", <<>>)

assign_ssp_family(m) ==
    IF ~InSeq("Ssp_family", m.columns)
    THEN [Returned([columns |-> WithColumn(m.columns, "SSP_Family"),
                    SSP_Family |-> [key \in DOMAIN m.category |-> "Unknown"]] @@ m)
            EXCEPT !.printed = <<WarnNoSspColumn>>]
    ELSE Returned([columns |-> WithColumn(m.columns, "SSP_Family"),
                   SSP_Family |-> [key \in DOMAIN m.category |->
                                      _classify_ssp(m.Ssp_family[key])]] @@ m)

(***************************************************************************)
(* Calls of the composition operations on metadata tables of up to         *)
(* MaxFamilyRows scenarios.                                                *)
(***************************************************************************)
MaxFamilyRows == 3
MaxMinScenarios == 3

\* the scenarios a table is drawn from, each with its category cell
Catalogue ==
    << <<"REMIND-MAgPIE 2.1-4.3", "s1", "C3", Num(1)>>,
       <<"remind 1.7", "s1", "failed-vetting", NaN>>,
       <<"MESSAGE-AIM 1", "s1", "C8", Fin(5, 2)>>,
       <<"GEM-E3", "s1", "Excluded", Num(6)>>,
       <<"GEM-E3_V2021", "s1", "C5", Num(0)>>,
       <<"IMAGE 3.0.1", "s1", "no-climate-assessment", Text("SSP1")>>,
       <<"EPPA 6", "s1", "C2", Num(5)>>,
       <<"EPPA 6", "s2", NaNText, Inf(1)>>,
       <<"C-ROADS-5.005", "s1", "C3", Fin(-1, 2)>>,
       <<"TIAM-ECN  1.1", "s1", "C4", Num(2)>> >>

\* the row of the catalogue that holds the scenario
CatalogueRow(chosen, key) ==
    CHOOSE i \in chosen : <<Catalogue[i][1], Catalogue[i][2]>> = key

\* tables with a category column, and tables with an Ssp_family column only
FamilyMetas ==
    UNION {
        LET index == {<<Catalogue[i][1], Catalogue[i][2]>> : i \in chosen}
        IN  {[columns |-> <<"Category">>,
              category |-> [key \in index |-> Catalogue[CatalogueRow(chosen, key)][3]]],
             [columns |-> <<"Ssp_family">>,
              category |-> [key \in index |-> NaNText],
              Ssp_family |-> [key \in index |-> Catalogue[CatalogueRow(chosen, key)][4]]]} :
        chosen \in {c \in SUBSET (1..Len(Catalogue)) : Cardinality(c) <= MaxFamilyRows}}

AssignModelFamilies ==
    \E min_scenarios \in 0..MaxMinScenarios :
        /\ Idle
        /\ call' = [op |-> "assign_model_families", min_scenarios |-> min_scenarios]
        /\ result' = assign_model_families(meta, min_scenarios)
        /\ UNCHANGED <<df_pyam, meta>>

AssignAssessmentStatus ==
    /\ Idle
    /\ call' = [op |-> "assign_assessment_status"]
    /\ result' = assign_assessment_status(meta)
    /\ UNCHANGED <<df_pyam, meta>>

AssignSspFamily ==
    /\ Idle
    /\ call' = [op |-> "assign_ssp_family"]
    /\ result' = assign_ssp_family(meta)
    /\ UNCHANGED <<df_pyam, meta>>

InitFamilies ==
    /\ df_pyam = [rows |-> <<>>, year_order |-> AscendingYears]
    /\ meta \in FamilyMetas
    /\ call = NoCall
    /\ result = NoResult

NextFamilies ==
    \/ AssignModelFamilies
    \/ AssignAssessmentStatus
    \/ AssignSspFamily

SpecFamilies == InitFamilies /\ [][NextFamilies]_vars

(***************************************************************************)
(* Properties of the family normalisation, stated on the shape of the      *)
(* model name.                                                             *)
(***************************************************************************)
IsDigits(t) == Len(t) >= 1 /\ \A i \in 1..Len(t) : CharAt(t, i) \in Digits

\* 5 or 5.3
IsNumber(t) ==
    \/ IsDigits(t)
    \/ \E k \in 1..Len(t) : /\ CharAt(t, k) = "."
                            /\ IsDigits(SubSeq(t, 1, k - 1))
                            /\ IsDigits(SubSeq(t, k + 1, Len(t)))

\* a number, or two numbers joined by a hyphen
IsVersion(t) ==
    \/ IsNumber(t)
    \/ \E k \in 1..Len(t) : /\ CharAt(t, k) = "-"
                            /\ IsNumber(SubSeq(t, 1, k - 1))
                            /\ IsNumber(SubSeq(t, k + 1, Len(t)))

\* blanks followed by a version
IsVersionSuffix(t) ==
    \E j \in 0..Len(t) : /\ \A i \in 1..j : CharAt(t, i) = " "
                         /\ IsVersion(SubSeq(t, j + 1, Len(t)))

\* the name without its longest version suffix and without blanks around
StrippedName(name) ==
    LET cuts == {i \in 1..Len(name) : IsVersionSuffix(SubSeq(name, i, Len(name)))}
        head == IF cuts = {} THEN name
                ELSE SubSeq(name, 1, (CHOOSE i \in cuts : \A j \in cuts : i <= j) - 1)
        inked == {i \in 1..Len(head) : CharAt(head, i) # " "}
    IN  IF inked = {} THEN ""
        ELSE SubSeq(head, CHOOSE i \in inked : \A j \in inked : i <= j,
                          CHOOSE i \in inked : \A j \in inked : j <= i)

\* the family name is in the name, whatever the case and the hyphens
ContainsFamily(name, known_family) ==
    LET hay == RemoveHyphens(StrUpper(name))
        needle == RemoveHyphens(known_family)
    IN  \E i \in 1..Len(hay) :
            i + Len(needle) - 1 <= Len(hay) /\ SubSeq(hay, i, i + Len(needle) - 1) = needle

\* the family the normalisation is to give
NormalizedFamily(name) ==
    LET stripped == StrippedName(name)
        hits == {k \in 1..Len(MODEL_FAMILIES) : ContainsFamily(stripped, MODEL_FAMILIES[k])}
    IN  IF hits = {} THEN stripped
        ELSE MODEL_FAMILIES[CHOOSE k \in hits : \A j \in hits : k <= j]

\* the family of each model name of the catalogue
ExpectedFamily ==
    [name \in {Catalogue[i][1] : i \in 1..Len(Catalogue)} |-> NormalizedFamily(name)]

FamilySize(family) ==
    Cardinality({key \in DOMAIN meta.category : ExpectedFamily[key[1]] = family})

\* C9: assign_model_families gives a scenario the family of its model name
\* (the name without trailing version suffix, snapped to the first known
\* family it contains, case and hyphens ignored, else left as stripped),
\* unless it groups the family under 'Other'; with min_scenarios <= 1 no
\* family is grouped; "REMIND-MAgPIE 2.1-4.3" gives "REMIND".
C9_FamilyNormalization ==
    call.op = "assign_model_families" =>
        \A key \in DOMAIN meta.category :
            LET given == result.returned.Model_Family[key]
            IN  /\ result.returned.Model[key] = key[1]
                /\ given \in {"Other", ExpectedFamily[key[1]]}
                /\ call.min_scenarios <= 1 => given = ExpectedFamily[key[1]]
                /\ (call.min_scenarios <= 1 /\ key[1] = "REMIND-MAgPIE 2.1-4.3")
                      => given = "REMIND"

\* one table holds "REMIND-MAgPIE 2.1-4.3" snapped to REMIND, a name that
\* contains two known families snapped to the first, and a name of no
\* known family that only loses its version
C9_Witness ==
    /\ call.op = "assign_model_families"
    /\ call.min_scenarios = 1
    /\ \E key \in DOMAIN meta.category :
          key[1] = "REMIND-MAgPIE 2.1-4.3" /\ result.returned.Model_Family[key] = "REMIND"
    /\ \E key \in DOMAIN meta.category :
          key[1] = "MESSAGE-AIM 1" /\ result.returned.Model_Family[key] = "MESSAGE"
    /\ \E key \in DOMAIN meta.category :
          key[1] = "EPPA 6" /\ result.returned.Model_Family[key] = "EPPA"

\* C10: a scenario whose family has strictly fewer than min_scenarios
\* scenarios in the table gets 'Other'; one whose family has min_scenarios
\* or more keeps the family name.
C10_SmallFamiliesGrouped ==
    call.op = "assign_model_families" =>
        \A key \in DOMAIN meta.category :
            LET family == ExpectedFamily[key[1]]
            IN  result.returned.Model_Family[key] =
                    IF FamilySize(family) < call.min_scenarios THEN "Other" ELSE family

\* a family of exactly min_scenarios scenarios keeps its name beside a
\* smaller one that is grouped
C10_Witness ==
    /\ call.op = "assign_model_families"
    /\ call.min_scenarios = 2
    /\ \E key \in DOMAIN meta.category :
          /\ FamilySize(ExpectedFamily[key[1]]) = 2
          /\ result.returned.Model_Family[key] = ExpectedFamily[key[1]]
    /\ \E key \in DOMAIN meta.category :
          /\ FamilySize(ExpectedFamily[key[1]]) = 1
          /\ result.returned.Model_Family[key] = "Other"

\* the number of scenarios of a model name in the table
ModelSize(name) == Cardinality({key \in DOMAIN meta.category : key[1] = name})

\* C11 as stated: every scenario of a model with fewer than min_scenarios
\* scenarios is grouped under 'Other'.
C11_SmallModelsGrouped ==
    call.op = "assign_model_families" =>
        \A key \in DOMAIN meta.category :
            ModelSize(key[1]) < call.min_scenarios
                => result.returned.Model_Family[key] = "Other"

\* C11, amended: the scenarios are counted per family, not per model: a
\* model with fewer than min_scenarios scenarios is grouped under 'Other'
\* when its whole family has fewer than min_scenarios scenarios, and keeps
\* the family name when the models of the family together reach
\* min_scenarios.
C11_SmallModelsFollowTheirFamily ==
    call.op = "assign_model_families" =>
        \A key \in DOMAIN meta.category :
            ModelSize(key[1]) < call.min_scenarios =>
                /\ FamilySize(ExpectedFamily[key[1]]) < call.min_scenarios
                      => result.returned.Model_Family[key] = "Other"
                /\ FamilySize(ExpectedFamily[key[1]]) >= call.min_scenarios
                      => result.returned.Model_Family[key] = ExpectedFamily[key[1]]

\* two models of one scenario each share a family, which is kept with
\* min_scenarios = 2
C11_Witness ==
    /\ call.op = "assign_model_families"
    /\ call.min_scenarios = 2
    /\ \E k1, k2 \in DOMAIN meta.category :
          /\ k1[1] # k2[1]
          /\ ModelSize(k1[1]) = 1 /\ ModelSize(k2[1]) = 1
          /\ ExpectedFamily[k1[1]] = ExpectedFamily[k2[1]]
          /\ result.returned.Model_Family[k1] = ExpectedFamily[k1[1]]
          /\ result.returned.Model_Family[k1] # "Other"

(***************************************************************************)
(* Properties of the assessment status.                                    *)
(***************************************************************************)
\* the text holds the word, each letter in either case
ContainsAnyCase(text, lower, upper) ==
    \E i \in 1..Len(text) :
        /\ i + Len(lower) - 1 <= Len(text)
        /\ \A k \in 1..Len(lower) :
              CharAt(text, i + k - 1) \in {CharAt(lower, k), CharAt(upper, k)}

CatalogueCells == {Catalogue[i][3] : i \in 1..Len(Catalogue)} \cup {NaNText}

\* the status of each category cell when the words given mean a failed vetting
StatusByWords(words) ==
    [cell \in CatalogueCells |->
        IF cell = NaNText THEN "No assessment"
        ELSE IF cell \in EightLabels THEN "Climate assessed (C1-C8)"
        ELSE IF \E w \in words : ContainsAnyCase(cell, w[1], w[2]) THEN "Failed vetting"
        ELSE "No assessment"]

StatusAsStated == StatusByWords({<<"failed", "FAILED">>})

ExpectedStatus == StatusByWords({<<"failed", "FAILED">>, <<"exclude", "EXCLUDE">>})

status_order == <<"Climate assessed (C1-C8)", "No assessment", "Failed vetting">>

ssp_order == <<"SSP1", "SSP2", "SSP3", "SSP4", "SSP5", "Other/Unknown">>

NoTop == <<>>

\* DataFrame.head(n): the first n rows, or all but the last -n when n < 0
head(seq, n) ==
    IF n >= 0 THEN SubSeq(seq, 1, IF n < Len(seq) THEN n ELSE Len(seq))
    ELSE SubSeq(seq, 1, IF Len(seq) + n > 0 THEN Len(seq) + n ELSE 0)

\* groupby([group_col, status_col]).size(): the rows of each pair
group_size(m, group_col, status_col, g, s) ==
    Cardinality({key \in DOMAIN m.category :
                    m[group_col][key] = g /\ m[status_col][key] = s})

RECURSIVE SumOver(_, _)
SumOver(seq, f) ==
    IF seq = <<>> THEN 0 ELSE f[Head(seq)] + SumOver(Tail(seq), f)

\* sort_values('_total', ascending=False): the orders of the groups with
\* totals that never increase; the order among equal totals is the sort's
sort_values(groups, total) ==
    {order \in [1..Cardinality(groups) -> groups] :
        /\ \A i, j \in 1..Cardinality(groups) : order[i] = order[j] => i = j
        /\ \A i \in 1..(Cardinality(groups) - 1) : total[order[i]] >= total[order[i + 1]]}

\* the status columns kept by the reordering, lines 1555-1556
status_columns(m, status_col) ==
    SelectSeq(status_order, LAMBDA s : \E key \in DOMAIN m.category : m[status_col][key] = s)

\* counts['_total'] = counts.sum(axis=1)
group_totals(m, group_col, status_col) ==
    [g \in {m[group_col][key] : key \in DOMAIN m.category} |->
        SumOver(status_columns(m, status_col),
                [s \in SeqToSet(status_order) |-> group_size(m, group_col, status_col, g, s)])]

count_scenarios_by_group(m, group_col, status_col, n_top, sorted) ==
    LET index == DOMAIN m.category
        columns == status_columns(m, status_col)
        top == IF n_top = NoTop THEN sorted
               ELSE IF InSeq("Other", sorted)
               THEN Append(head(SelectSeq(sorted, LAMBDA g : g # "Other"), n_top[1] - 1),
                           "Other")
               ELSE head(sorted, n_top[1])
        kept == IF group_col = "SSP_Family"
                THEN SelectSeq(ssp_order, LAMBDA g : InSeq(g, top))
                ELSE top
    IN  Returned([index |-> kept,
                  columns |-> columns,
                  cell |-> [gs \in SeqToSet(kept) \X SeqToSet(columns) |->
                               group_size(m, group_col, status_col, gs[1], gs[2])]])

(***************************************************************************)
(* Calls of count_scenarios_by_group on enriched metadata tables of up to  *)
(* MaxCountRows scenarios.                                                 *)
(***************************************************************************)
MaxCountRows == 3
MaxTop == 2

ScenarioNames == <<"s1", "s2", "s3", "s4", "s5", "s6">>

FamilyGroups == {"REMIND", "EPPA", "Other"}
SspGroups == {"SSP1", "SSP2", "Other/Unknown"}
Statuses == {"Climate assessed (C1-C8)", "No assessment", "Failed vetting"}

\* an enriched table: the group column, and Assessment_Status
CountTable(index, group_col, groups, status) ==
    (group_col :> groups) @@
    [columns |-> <<group_col, "Assessment_Status">>,
     category |-> [key \in index |-> NaNText],
     Assessment_Status |-> status]

\* the tables of n scenarios: Model_Family as assign_model_families leaves
\* it, SSP_Family as assign_ssp_family leaves it with and without an
\* Ssp_family column, Assessment_Status as assign_assessment_status does
CountTables(n) ==
    LET index == {<<"EPPA 6", ScenarioNames[i]>> : i \in 1..n}
    IN  {CountTable(index, "Model_Family", g, s) :
            g \in [index -> FamilyGroups], s \in [index -> Statuses]}
        \cup {CountTable(index, "SSP_Family", g, s) :
            g \in [index -> SspGroups], s \in [index -> Statuses]}
        \cup {CountTable(index, "SSP_Family", [key \in index |-> "Unknown"], s) :
            s \in [index -> Statuses]}

CountMetas == UNION {CountTables(n) : n \in 1..MaxCountRows}

CountScenariosByGroup ==
    \E n_top \in {NoTop} \cup {<<N>> : N \in 0..MaxTop} :
        LET group_col == meta.columns[1]
            total == group_totals(meta, group_col, "Assessment_Status")
        IN  \E sorted \in sort_values(DOMAIN total, total) :
                /\ Idle
                /\ call' = [op |-> "count_scenarios_by_group", group_col |-> group_col,
                            status_col |-> "Assessment_Status", n_top |-> n_top]
                /\ result' = count_scenarios_by_group(meta, group_col, "Assessment_Status",
                                                      n_top, sorted)
                /\ UNCHANGED <<df_pyam, meta>>

InitCounts ==
    /\ df_pyam = [rows |-> <<>>, year_order |-> AscendingYears]
    /\ meta \in CountMetas
    /\ call = NoCall
    /\ result = NoResult

NextCounts == CountScenariosByGroup

SpecCounts == InitCounts /\ [][NextCounts]_vars

(***************************************************************************)
(* Properties of the count table.                                          *)
(***************************************************************************)
\* the metadata rows of a group, and of a group with a status
RowsOfGroup(g) == {key \in DOMAIN meta.category : meta[call.group_col][key] = g}

RowsOfGroupStatus(g, s) == {key \in RowsOfGroup(g) : meta[call.status_col][key] = s}

GroupsOfMeta == {meta[call.group_col][key] : key \in DOMAIN meta.category}

\* the sum of the cells of the rows from position i on
RECURSIVE SumRows(_, _)
SumRows(t, i) ==
    IF i > Len(t.index) THEN 0
    ELSE SumOver(t.columns, [s \in SeqToSet(t.columns) |-> t.cell[<<t.index[i], s>>]])
         + SumRows(t, i + 1)

\* the sequence follows the order of the reference list
InOrderOf(seq, reference) ==
    \A i, j \in 1..Len(seq) :
        i < j => \E a, b \in 1..Len(reference) :
                    a < b /\ reference[a] = seq[i] /\ reference[b] = seq[j]

\* C13: without n_top each cell is the number of rows of its group and
\* status, the cells add up to the number of metadata rows, the status
\* columns follow the fixed order, and the groups come by decreasing total
\* (in the order SSP1..SSP5, Other/Unknown for SSP_Family).
C13_CountsPerGroupAndStatus ==
    (call.op = "count_scenarios_by_group" /\ call.n_top = NoTop) =>
        LET t == result.returned
        IN  /\ \A i \in 1..Len(t.index) : \A j \in 1..Len(t.columns) :
                  t.cell[<<t.index[i], t.columns[j]>>]
                      = Cardinality(RowsOfGroupStatus(t.index[i], t.columns[j]))
            /\ InOrderOf(t.columns, status_order)
            /\ IF call.group_col = "SSP_Family"
               THEN InOrderOf(t.index, ssp_order)
               ELSE \A i \in 1..(Len(t.index) - 1) :
                       Cardinality(RowsOfGroup(t.index[i]))
                           >= Cardinality(RowsOfGroup(t.index[i + 1]))
            /\ SumRows(t, 1) = Cardinality(DOMAIN meta.category)

\* C14: with n_top = N the table has at most N rows and no dropped group
\* has a larger total than a kept one.
C14_TopGroupsKept ==
    (call.op = "count_scenarios_by_group" /\ call.n_top # NoTop) =>
        LET t == result.returned
        IN  /\ Len(t.index) <= call.n_top[1]
            /\ \A g \in SeqToSet(t.index) : \A h \in GroupsOfMeta \ SeqToSet(t.index) :
                  Cardinality(RowsOfGroup(g)) >= Cardinality(RowsOfGroup(h))

(***************************************************************************)
(* Properties of the calls that ask for something the dataset lacks.       *)
(***************************************************************************)
ScatterCall == call.op = "plot_scatter_boxplot_by_category"

\* the variable of the call has a time series, and no column for the year
YearIsNoColumn == RowsWith(call.variable) # {} /\ ~HasData(call.variable, call.year)

\* C15: plot_scatter_boxplot_by_category called with a year that is not a
\* column of the time series of the variable prints a warning and returns
\* without drawing anything: no point, box, count label or IMP marker.  The
\* warning names the year whenever the metadata has a category column.
C15_MissingYearWarns ==
    (ScatterCall /\ YearIsNoColumn) =>
        /\ result.raised = "none"
        /\ result.drawn = <<>>
        /\ Len(result.printed) = 1
        /\ HasCategoryColumn =>
               /\ result.printed[1].text = "Year not found in data"
               /\ result.printed[1].args[1] = call.year
               /\ call.year \notin SeqToSet(result.printed[1].args[2])

\* a pathway of category C1 holds data in another year only, and its IMP
\* markers were asked for
C15_Witness ==
    /\ ScatterCall /\ YearIsNoColumn /\ HasCategoryColumn
    /\ call.show_imps
    /\ \E r \in RowsWith(call.variable) :
           /\ KeyOf(r) \in DOMAIN meta.category
           /\ meta.category[KeyOf(r)] = "C1"
    /\ result.printed # <<>> /\ result.drawn = <<>>

\* the dataset holds no row of what the axes shows
MissingOn(ax) ==
    IF IsRatioCall
    THEN RowsWith(PairOn(ax)[1]) = {} \/ RowsWith(PairOn(ax)[2]) = {}
    ELSE RowsWith(VariableOn(ax)) = {}

KayaOps == {"plot_kaya_variable", "plot_kaya_variables", "plot_kaya_ratio", "plot_kaya_ratios"}

\* C16: when the requested variable (for a ratio, the numerator or the
\* denominator) has no rows in the dataset, every plotting operation returns
\* normally, nothing is drawn on the axes of that variable, and the Kaya
\* operations annotate the axes with 'no data'.
C16_MissingVariableDegrades ==
    call.op \in PlotOps =>
        \A ax \in AxesOfCall :
            MissingOn(ax) =>
                /\ result.raised = "none"
                /\ \A i \in 1..Len(result.drawn) : result.drawn[i].ax # ax
                /\ call.op \in KayaOps => ax \in result.nodata

(***************************************************************************)
(* Properties of the warnings of the explorer.                             *)
(***************************************************************************)
UpdateCall == call.op = "update_ratio"

SameSelection == call.numerator = call.denominator

\* the selected pathway has no row of the variable behind the name
Lacks(friendly) == PathwayRows(kaya_vars[friendly], ImpKey(call.imp_name)) = {}

\* the selected names whose variable the pathway lacks, numerator first
MissingSelection ==
    (IF Lacks(call.numerator) THEN <<call.numerator>> ELSE <<>>)
    \o (IF Lacks(call.denominator) THEN <<call.denominator>> ELSE <<>>)

WarnsSameSelection ==
    /\ result.raised = "none"
    /\ result.printed = <<Msg("select different variables", <<>>)>>
    /\ result.drawn = <<>>

WarnsMissing ==
    /\ result.raised = "none"
    /\ result.drawn = <<>>
    /\ result.printed = <<Msg("cannot compute ratio for", <<call.imp_name>>),
                          Msg("variables not available", MissingSelection)>>

\* C17 as stated: whenever the numerator equals the denominator the warning
\* about the selection is printed and nothing is plotted, and whenever the
\* pathway lacks the numerator or the denominator the warning names exactly
\* the missing variables and nothing is plotted.
C17_WarnsWheneverMissing ==
    UpdateCall =>
        /\ SameSelection => WarnsSameSelection
        /\ MissingSelection # <<>> => WarnsMissing

\* C17: when the numerator equals the denominator, update_ratio prints the
\* warning about the selection and returns without computing or plotting a
\* ratio; when they differ and the pathway lacks the numerator or the
\* denominator, it prints a warning naming exactly the missing variables and
\* plots nothing.
C17_ExplorerWarnings ==
    UpdateCall =>
        /\ SameSelection => WarnsSameSelection
        /\ (~SameSelection /\ MissingSelection # <<>>) => WarnsMissing

\* the pathway holds the numerator and lacks the denominator, which another
\* pathway holds
C17_Witness ==
    /\ UpdateCall /\ ~SameSelection
    /\ MissingSelection = <<call.denominator>>
    /\ RowsWith(kaya_vars[call.denominator]) # {}
    /\ WarnsMissing

(***************************************************************************)
(* Properties of the order of the points of a line.                        *)
(***************************************************************************)
StrictlyIncreasing(x) == \A i \in 1..Len(x) - 1 : x[i] < x[i + 1]

\* the row holds a value in every year
HoldsEveryYear(r) == \A y \in Years : Defined(r.values[y])

\* C18: every line drawn by the time-series and ratio operations has its
\* points in strictly increasing year order, whatever the order of the year
\* columns of the dataset, and has as many values as years.
C18_PointsInYearOrder ==
    \A i \in Drawn({"category", "imp"}) :
        /\ StrictlyIncreasing(result.drawn[i].x)
        /\ Len(result.drawn[i].y) = Len(result.drawn[i].x)
        /\ SeqToSet(result.drawn[i].x) \subseteq Years

\* the year columns come in decreasing order and a line over every year is
\* drawn, by an operation on one variable or by one on a ratio
C18_Witness ==
    /\ df_pyam.year_order = DescendingYears
    /\ \E i \in Drawn({"category", "imp"}) : Len(result.drawn[i].x) = Cardinality(Years)
    /\ \E r \in RowsWith("GDP|PPP") : HoldsEveryYear(r)

(***************************************************************************)
(* Properties of the tables the composition operations return.             *)
(***************************************************************************)
AssignOps == {"assign_model_families", "assign_assessment_status", "assign_ssp_family"}

\* the columns an operation adds
AddedColumns ==
    CASE call.op = "assign_model_families"    -> {"Model", "Model_Family"}
      [] call.op = "assign_assessment_status" -> {"Assessment_Status"}
      [] call.op = "assign_ssp_family"        -> {"SSP_Family"}

\* the values of a column of a table
ColumnOf(table, name) == IF name \in DOMAIN table THEN table[name] ELSE table.category

\* C19: assign_model_families, assign_assessment_status and
\* assign_ssp_family each return a table that has the columns of the
\* metadata passed in, with the same values on the same rows, followed by
\* the new columns.
C19_ReturnsEnrichedCopy ==
    call.op \in AssignOps =>
        /\ result.raised = "none"
        /\ "returned" \in DOMAIN result
        /\ LET out == result.returned
           IN  /\ SubSeq(out.columns, 1, Len(meta.columns)) = meta.columns
               /\ SeqToSet(out.columns) = SeqToSet(meta.columns) \cup AddedColumns
               /\ \A i \in 1..Len(meta.columns) :
                      ColumnOf(out, meta.columns[i]) = ColumnOf(meta, meta.columns[i])
               /\ \A name \in AddedColumns : DOMAIN out[name] = DOMAIN meta.category

(***************************************************************************)
(* Properties of the display mode of the Kaya operations.                  *)
(***************************************************************************)
CategoryDrawn(ax, row) ==
    \E i \in Drawn({"category"}) : /\ result.drawn[i].ax = ax
                                   /\ result.drawn[i].idx = IdxOf(row)

\* the rows of the axes that have a category line to show: the pathway is in
\* a requested category and the row holds a value (for a ratio: a quotient
\* with every denominator row of the pathway, of which there is one)
CategoryRowsOn(ax) ==
    {n \in RowsWith(VariableOn(ax)) :
        /\ CategoryRequested(KeyOf(n))
        /\ IF IsRatioCall
           THEN /\ PathwayRows(PairOn(ax)[2], KeyOf(n)) # {}
                /\ \A d \in PathwayRows(PairOn(ax)[2], KeyOf(n)) : HasQuotient(n, d)
           ELSE \E y \in Years : Defined(n.values[y])}

\* the reference pathways that have a line to show on the axes
ImpsOn(ax) ==
    {imp_name \in SeqToSet(IMP_NAMES) :
        IF IsRatioCall
        THEN /\ PathwayRows(PairOn(ax)[1], ImpKey(imp_name)) # {}
             /\ PathwayRows(PairOn(ax)[2], ImpKey(imp_name)) # {}
             /\ HasQuotient(FirstRow(PairOn(ax)[1], ImpKey(imp_name)),
                            LastRow(PairOn(ax)[2], ImpKey(imp_name)))
        ELSE HasDefinedValue(ax, imp_name)}

\* C20: in plot_kaya_variable(s) and plot_kaya_ratio(s), mode 'imps' draws
\* the IMP lines and no category line, mode 'categories' draws the category
\* lines and no IMP line, mode 'both' draws both, and any other mode draws
\* neither.
C20_ModeSelectsLines ==
    call.op \in KayaOps =>
        /\ call.mode \in {"imps", "both"} \/ Drawn({"imp"}) = {}
        /\ call.mode \in {"categories", "both"} \/ Drawn({"category"}) = {}
        /\ call.mode \in {"imps", "both"} =>
              \A ax \in AxesOfCall : \A imp_name \in ImpsOn(ax) : ImpDrawn(ax, imp_name)
        /\ call.mode \in {"categories", "both"} =>
              \A ax \in AxesOfCall : \A n \in CategoryRowsOn(ax) : CategoryDrawn(ax, n)

\* a mode that is none of the three meets a dataset with a category line and
\* an IMP line to show, and nothing is drawn
C20_Witness ==
    /\ call.op \in KayaOps
    /\ call.mode \notin {"imps", "categories", "both"}
    /\ \E ax \in AxesOfCall : CategoryRowsOn(ax) # {} /\ ImpsOn(ax) # {}
    /\ result.drawn = <<>>

(***************************************************************************)
(* Properties of the list of categories.                                   *)
(***************************************************************************)
CategoryOps == PlotOps \cup {"plot_kaya_decomposition"}

\* what each axes of the call shows: <<variable, None>>, or
\* <<numerator, denominator>>
PanelsOfCall ==
    CASE call.op = "plot_kaya_variables" ->
            [ax \in 1..Len(KAYA_VARIABLES) |-> <<KAYA_VARIABLES[ax], None>>]
      [] call.op = "plot_kaya_ratios" ->
            [ax \in 1..Len(KAYA_RATIOS) |-> KAYA_RATIOS[ax]]
      [] call.op = "plot_kaya_ratio" ->
            [ax \in {1} |-> <<call.numerator, call.denominator>>]
      [] call.op = "plot_kaya_decomposition" ->
            [ax \in {1, 2, 3, 5, 6} |->
                CASE ax = 1 -> <<KAYA_VARIABLES[1], None>>
                  [] ax = 2 -> <<"Population", None>>
                  [] ax = 3 -> <<"GDP|PPP", "Population">>
                  [] ax = 5 -> <<"Primary Energy", "GDP|PPP">>
                  [] ax = 6 -> <<KAYA_VARIABLES[1], "Primary Energy">>]
      [] OTHER -> [ax \in {1} |-> <<call.variable, None>>]

\* the operation draws category lines under the mode of the call
DrawsCategories ==
    call.op \in {"plot_timeseries_by_category", "plot_scatter_boxplot_by_category"}
    \/ call.mode \in {"categories", "both"}

\* the rows of a panel that have a category line to show
CategoryRowsOfPanel(panel) ==
    {n \in RowsWith(panel[1]) :
        /\ CategoryRequested(KeyOf(n))
        /\ IF panel[2] = None
           THEN \E y \in Years : Defined(n.values[y])
           ELSE /\ PathwayRows(panel[2], KeyOf(n)) # {}
                /\ \A d \in PathwayRows(panel[2], KeyOf(n)) : HasQuotient(n, d)}

PointsLabelled(cat) ==
    {i \in Drawn({"point"}) : result.drawn[i].label = cat}

\* C21: a row whose category is not in the list of the call is never drawn
\* as a category line or point, and a row whose category is in the list is.
\* With categories=None the list is C1..C8 for plot_timeseries_by_category,
\* plot_scatter_boxplot_by_category, plot_kaya_variables and
\* plot_kaya_ratios, and C1..C3 for plot_kaya_variable, plot_kaya_ratio and
\* plot_kaya_decomposition in mode 'categories' or 'both'.
C21_OnlyRequestedCategories ==
    call.op \in CategoryOps =>
        /\ \A i \in Drawn({"category"}) :
              LET a == result.drawn[i]
              IN  /\ a.ax \in DOMAIN PanelsOfCall
                  /\ CategoryRequested(<<a.idx[1], a.idx[2]>>)
                  /\ a.label = meta.category[<<a.idx[1], a.idx[2]>>]
        /\ \A i \in Drawn({"point", "box", "count"}) :
              result.drawn[i].label \in RequestedCategories
        /\ (call.op = "plot_scatter_boxplot_by_category" /\ HasData(call.variable, call.year)) =>
              \A cat \in RequestedCategories :
                  Cardinality(PointsLabelled(cat))
                      = Cardinality(RowsInCategory(call.variable, call.year, cat))
        /\ (call.op # "plot_scatter_boxplot_by_category" /\ DrawsCategories) =>
              \A ax \in DOMAIN PanelsOfCall :
                  \A n \in CategoryRowsOfPanel(PanelsOfCall[ax]) : CategoryDrawn(ax, n)

\* plot_kaya_decomposition with categories=None draws the Population line
\* of a pathway of category C1 and not the one of a pathway of category C5
C21_Witness ==
    /\ call.op = "plot_kaya_decomposition"
    /\ call.categories = NoCategories
    /\ call.mode = "both"
    /\ \E n \in RowsWith("Population"), o \in RowsWith("Population") :
          /\ meta.category[KeyOf(n)] = "C1" /\ CategoryDrawn(2, n)
          /\ meta.category[KeyOf(o)] = "C5" /\ ~CategoryDrawn(2, o)

(***************************************************************************)
(* Properties of the SSP family.                                           *)
(***************************************************************************)
\* the cell is one of the numbers 1, 2, 3, 4, 5
IsSspNumber(val) == val[1] = "fin" /\ val[3] = 1 /\ val[2] \in 1..5

\* C22: assign_ssp_family turns the numeric values 1 to 5 into SSP1 to SSP5
\* and every other value (missing, no number, a number outside 1..5, a
\* number that is no integer) into 'Other/Unknown'; without an 'Ssp_family'
\* column it prints a warning and sets SSP_Family to 'Unknown' on every row.
C22_SspFamilyNames ==
    call.op = "assign_ssp_family" =>
        /\ result.raised = "none"
        /\ DOMAIN result.returned.SSP_Family = DOMAIN meta.category
        /\ IF InSeq("Ssp_family", meta.columns)
           THEN /\ result.printed = <<>>
                /\ \A key \in DOMAIN meta.category :
                      result.returned.SSP_Family[key] =
                          IF IsSspNumber(meta.Ssp_family[key])
                          THEN SspName(meta.Ssp_family[key][2])
                          ELSE "Other/Unknown"
           ELSE /\ result.printed = <<WarnNoSspColumn>>
                /\ \A key \in DOMAIN meta.category :
                      result.returned.SSP_Family[key] = "Unknown"

(***************************************************************************)
(* Properties of the explorer                                              *)
(***************************************************************************)
InExplorer == call.op = "create_kaya_explorer"

\* C23: once the handlers of a change of a control have run, the values
\* panel shows update_values of the selected pathway and year, and the
\* ratio panel shows update_ratio of the selected pathway, numerator,
\* denominator and year: neither panel shows the output of an earlier
\* selection.
C23_PanelsFollowControls ==
    InExplorer =>
        /\ result.values = update_values(df_pyam, call.imp_name, call.year)
        /\ result.ratio = update_ratio(df_pyam, call.imp_name, call.numerator,
                                       call.denominator, call.year)

\* every control has left its initial value, and both panels show data:
\* a value of the selected year and a ratio line
C23_Witness ==
    /\ InExplorer
    /\ call.imp_name = "LD"
    /\ call.year = 2020
    /\ call.numerator = "Primary Energy"
    /\ call.denominator = "CO2 Emissions"
    /\ \E k \in 1..Len(result.values.printed) : result.values.printed[k].text = "value"
    /\ \E k \in 1..Len(result.ratio.drawn) :
          /\ result.ratio.drawn[k].kind = "imp"
          /\ result.ratio.drawn[k].x # <<>>
    /\ result.values # update_values(df_pyam, "LD", 2050)
    /\ result.ratio # update_ratio(df_pyam, "LD", "GDP (PPP)", "Population", 2050)

\* the timeseries of a variable of the selected pathway has a column for
\* the selected year: some row of the variable holds a value at the year
HasColumnAtYear(friendly_name) ==
    \E i \in 1..Len(df_pyam.rows) :
        /\ df_pyam.rows[i].model = IMP_DETAILS[call.imp_name][1]
        /\ df_pyam.rows[i].scenario = IMP_SCENARIOS[call.imp_name]
        /\ df_pyam.rows[i].variable = kaya_vars[friendly_name]
        /\ call.year \in Years
        /\ ~isnan(df_pyam.rows[i].values[call.year])

LinesOfText(printed, texts) == SelectSeq(printed, LAMBDA l : l.text \in texts)

\* C27: update_values prints the three Kaya ratios exactly when each of
\* the four Kaya variables has a column for the selected year of the
\* selected pathway; otherwise it prints the warning that the ratios are
\* not computable, once, and one line for each missing variable.  Exactly
\* one of the two blocks is printed.
C27_RatiosOrWarning ==
    InExplorer =>
        LET printed == result.values.printed
            ratios == Len(LinesOfText(printed, {"kaya ratios"}))
            warnings == Len(LinesOfText(printed, {"ratios not computable"}))
            missing == LinesOfText(printed, {"no data for year", "variable not available"})
            lacking == {f \in SeqToSet(kaya_names) : ~HasColumnAtYear(f)}
        IN  /\ ratios + warnings = 1
            /\ ratios = 1 <=> lacking = {}
            /\ ratios = 1 =>
                  Len(LinesOfText(printed, {"gdp per capita", "energy intensity",
                                            "carbon intensity"})) = 3
            /\ Len(missing) = Cardinality(lacking)
            /\ \A f \in lacking : \E k \in 1..Len(missing) : missing[k].args[1] = f

\* the ratios are printed for a selection the user moved to
C27_WitnessRatios ==
    /\ InExplorer
    /\ call.year = 2020
    /\ \E k \in 1..Len(result.values.printed) :
          /\ result.values.printed[k].text = "gdp per capita"
          /\ result.values.printed[k].args[1][1] = "fin"

\* the warning is printed with one variable without a row and one without
\* a value at the year
C27_Witness ==
    /\ InExplorer
    /\ call.year = 2020
    /\ \E k \in 1..Len(result.values.printed) :
          result.values.printed[k].text = "ratios not computable"
    /\ \E k \in 1..Len(result.values.printed) :
          result.values.printed[k].text = "no data for year"
    /\ \E k \in 1..Len(result.values.printed) :
          result.values.printed[k].text = "variable not available"
    /\ \E k \in 1..Len(result.values.printed) :
          result.values.printed[k].text = "value"

\* C28: the values update_ratio prints for the key years 2020, 2050 and
\* 2100 are masked like the plotted line: no printed value is NaN or
\* infinite.
C28_KeyYearsMasked ==
    UpdateCall =>
        \A k \in 1..Len(result.printed) :
            result.printed[k].text = "year value" =>
                /\ ~isnan(result.printed[k].args[2])
                /\ ~isinf(result.printed[k].args[2])

(***************************************************************************)
(* Properties of the pairing of numerator and denominator rows             *)
(***************************************************************************)
RegionOf(idx) == idx[3]

\* C24: every ratio line of plot_kaya_ratio / plot_kaya_ratios divides a
\* numerator row by a denominator row of the same (model, scenario) and of
\* the same region.
C24_SameRegionPairs ==
    IsRatioCall =>
        \A i \in RatioLines :
            RegionOf(result.drawn[i].idx) = RegionOf(result.drawn[i].den_idx)

(***************************************************************************)
(* Properties of a requested label that is none of C1..C8                  *)
(***************************************************************************)
\* the requested labels without a colour
UnknownLabels == RequestedCategories \ EightLabels

\* C25: when the list of categories holds a label that is none of C1..C8,
\* each of the six category-coloured operations skips the pathways of that
\* label silently: it returns normally, prints nothing about them and
\* draws no category artist for them.
C25_UnknownLabelSkipped ==
    (call.op \in PlotOps /\ UnknownLabels # {}
        /\ _get_category_column(meta.columns) # None) =>
        /\ result.raised \in {"none", "ValueError"}
        /\ \A i \in Drawn({"category", "point", "box", "count"}) :
              result.drawn[i].label \notin UnknownLabels

(***************************************************************************)
(* Properties of the number of lines of a reference pathway                *)
(***************************************************************************)
ImpArtists(ax, imp_name) ==
    {i \in Drawn({"imp"}) : result.drawn[i].ax = ax /\ result.drawn[i].label = imp_name}

\* the first row of the pathway, in index order, that holds a value
FirstRowWithValue(variable, key) ==
    CHOOSE r \in PathwayRows(variable, key) :
        /\ \E y \in Years : Defined(r.values[y])
        /\ \A o \in PathwayRows(variable, key) :
              (\E y \in Years : Defined(o.values[y])) => Position(r) <= Position(o)

C26_WitnessOnce ==
    /\ call.op \in {"plot_timeseries_by_category", "plot_kaya_variable"}
    /\ ImpRequested
    /\ Cardinality(PathwayRows(VariableOn(1), ImpKey("LD"))) = 2
    /\ Cardinality(ImpArtists(1, "LD")) = 1

(***************************************************************************)
(* Properties of the buckets of the scatter plot                           *)
(***************************************************************************)
\* the requested list of the scatter plot, in its order
ScatterList == IF call.categories # NoCategories THEN call.categories ELSE ALL_CATEGORIES

ScatterArtists(kind, cat) ==
    {i \in Drawn({kind}) : result.drawn[i].label = cat}

=============================================================================
